---- MODULE Spec2Model ----
(***************************************************************************)
(* A model of the Maven build action: EnvironmentManager (toolchain        *)
(* resolution and version compatibility) and CacheManager (manifest scan,  *)
(* cache-key derivation, restore keys).                                    *)
(*                                                                         *)
(* JavaScript strings are sequences of one-character strings, so that      *)
(* parseInt, Number, split, startsWith and template-literal concatenation  *)
(* are computed character by character as the code computes them.          *)
(***************************************************************************)
EXTENDS Integers, Sequences, FiniteSets, TLC

(***************************************************************************)
(* Bounds of the model.                                                    *)
(***************************************************************************)
\* Java majors 0..MaxMajor are drawn as inputs of the compatibility check.
MaxMajor == 22
\* Maven versions of 1..MaxParts dot-separated components are drawn.
MaxParts == 3
\* The project tree holds a chain of nested module directories of up to
\* MaxChain levels below the working directory.
MaxChain == 7
\* The cache key is derived up to MaxDerivations times over one tree.
MaxDerivations == 2

\* How many times restore() and save() are called on their own.
MaxStoreCalls == 2

(***************************************************************************)
(* Strings.                                                                *)
(***************************************************************************)
DigitChars == <<"0", "1", "2", "3", "4", "5", "6", "7", "8", "9">>

IsDigit(c) == \E i \in 1..10 : DigitChars[i] = c

DigitVal(c) == (CHOOSE i \in 1..10 : DigitChars[i] = c) - 1

\* String(n) for a non-negative integer, as a template literal renders it.
RECURSIVE ToStr(_)
ToStr(n) ==
  IF n < 10 THEN <<DigitChars[n + 1]>>
  ELSE ToStr(n \div 10) \o <<DigitChars[(n % 10) + 1]>>

\* Array.prototype.join(sep) over an array of strings.
RECURSIVE Join(_, _)
Join(parts, sep) ==
  IF parts = <<>> THEN <<>>
  ELSE IF Len(parts) = 1 THEN parts[1]
  ELSE parts[1] \o sep \o Join(Tail(parts), sep)

\* String.prototype.startsWith.
StartsWith(s, p) == Len(p) <= Len(s) /\ SubSeq(s, 1, Len(p)) = p

\* String.prototype.split(sep) for a one-character separator.
RECURSIVE Split(_, _)
Split(s, sep) ==
  IF \A i \in 1..Len(s) : s[i] # sep THEN <<s>>
  ELSE LET k == CHOOSE i \in 1..Len(s) :
                  s[i] = sep /\ \A j \in 1..(i - 1) : s[j] # sep
       IN  <<SubSeq(s, 1, k - 1)>> \o Split(SubSeq(s, k + 1, Len(s)), sep)

(***************************************************************************)
(* JavaScript numbers: an integer or NaN.                                  *)
(***************************************************************************)
NaN == [nan |-> TRUE, val |-> 0]

Num(n) == [nan |-> FALSE, val |-> n]

RECURSIVE DecValue(_)
DecValue(ds) ==
  IF ds = <<>> THEN 0
  ELSE DecValue(SubSeq(ds, 1, Len(ds) - 1)) * 10 + DigitVal(ds[Len(ds)])

\* The longest prefix of s made of decimal digits.
LeadingDigits(s) ==
  LET k == CHOOSE n \in 0..Len(s) :
             /\ \A i \in 1..n : IsDigit(s[i])
             /\ (n = Len(s) \/ ~IsDigit(s[n + 1]))
  IN  SubSeq(s, 1, k)

\* parseInt(s): optional sign, then the leading decimal digits; NaN when there
\* is none.  (The strings of the model hold no white space and no "x", so the
\* white-space skip and the hexadecimal prefix of parseInt never apply.)
parseInt(s) ==
  LET signed == s # <<>> /\ s[1] \in {"-", "+"}
      body   == IF signed THEN Tail(s) ELSE s
      ds     == LeadingDigits(body)
  IN  IF ds = <<>> THEN NaN
      ELSE IF signed /\ s[1] = "-" THEN Num(0 - DecValue(ds))
      ELSE Num(DecValue(ds))

\* Number(s) for one dot-free component: "" is 0, a signed run of digits is its
\* value, anything else is NaN.  (No white space, exponent or radix prefix
\* occurs in the strings of the model.)
Number(s) ==
  LET signed == s # <<>> /\ s[1] \in {"-", "+"}
      body   == IF signed THEN Tail(s) ELSE s
  IN  IF s = <<>> THEN Num(0)
      ELSE IF body = <<>> \/ \E i \in 1..Len(body) : ~IsDigit(body[i]) THEN NaN
      ELSE IF s[1] = "-" THEN Num(0 - DecValue(body))
      ELSE Num(DecValue(body))

\* a >= b on JavaScript numbers: false when either is NaN.
GreaterOrEqual(a, b) == ~a.nan /\ ~b.nan /\ a.val >= b.val

\* parts[i] || 0: undefined (past the end), NaN and 0 all give 0.
PartOrZero(parts, i) ==
  IF i > Len(parts) THEN 0
  ELSE IF parts[i].nan THEN 0
  ELSE parts[i].val

Max(a, b) == IF a >= b THEN a ELSE b

(***************************************************************************)
(* EnvironmentManager: version compatibility (pure functions).             *)
(***************************************************************************)
\* Mutant: the majors compared as strings of digits, not as integers.
isJavaVersionBackwardCompatible_strcmp(current, required) ==
  LET c == LeadingDigits(current)
      r == LeadingDigits(required)
  IN  /\ c # <<>>
      /\ r # <<>>
      /\ \/ c = r
         \/ \E k \in 1..Len(c) :
              /\ \A j \in 1..(k - 1) : j <= Len(r) /\ c[j] = r[j]
              /\ (k > Len(r) \/ DigitVal(c[k]) > DigitVal(r[k]))

isJavaVersionBackwardCompatible(current, required) ==
  LET currentMajor  == parseInt(current)
      requiredMajor == parseInt(required)
  IN  GreaterOrEqual(currentMajor, requiredMajor)

isJavaVersionCompatible(currentVersion, requiredJavaVersion) ==
  \/ currentVersion = requiredJavaVersion
  \/ isJavaVersionBackwardCompatible(currentVersion, requiredJavaVersion)

\* The loop of isMavenVersionBackwardCompatible from index i on.
RECURSIVE MavenPartsLoop(_, _, _)
MavenPartsLoop(currentParts, requiredParts, i) ==
  IF i > Max(Len(currentParts), Len(requiredParts)) THEN TRUE
  ELSE LET currentPart  == PartOrZero(currentParts, i)
           requiredPart == PartOrZero(requiredParts, i)
       IN  IF currentPart > requiredPart THEN TRUE
           ELSE IF currentPart < requiredPart THEN FALSE
           ELSE MavenPartsLoop(currentParts, requiredParts, i + 1)

\* Mutant: the loop runs over the components of `required` only, so that a
\* longer `current` is cut and a shorter `required` is not padded.
isMavenVersionBackwardCompatible_short(current, required) ==
  LET cs == Split(current, ".")
      rs == Split(required, ".")
      currentParts  == [i \in 1..Len(cs) |-> Number(cs[i])]
      requiredParts == [i \in 1..Len(rs) |-> Number(rs[i])]
  IN  \A i \in 1..Len(rs) :
        (\A j \in 1..(i - 1) :
           PartOrZero(currentParts, j) = PartOrZero(requiredParts, j))
        => i <= Len(cs) /\ PartOrZero(currentParts, i) >= PartOrZero(requiredParts, i)

isMavenVersionBackwardCompatible(current, required) ==
  LET cs == Split(current, ".")
      rs == Split(required, ".")
      currentParts  == [i \in 1..Len(cs) |-> Number(cs[i])]
      requiredParts == [i \in 1..Len(rs) |-> Number(rs[i])]
  IN  MavenPartsLoop(currentParts, requiredParts, 1)

isMavenVersionCompatible(currentVersion, requiredMavenVersion) ==
  \/ currentVersion = requiredMavenVersion
  \/ isMavenVersionBackwardCompatible(currentVersion, requiredMavenVersion)

(***************************************************************************)
(* Inputs of the compatibility checks.  Each input carries the string the  *)
(* code receives (text) and what it was rendered from (major / parts), so  *)
(* that the checked ordering is stated on the numbers, not on a parse.     *)
(***************************************************************************)
NoMajor == 0 - 1

JavaSuffixes ==
  { <<>>, <<".", "0", ".", "2">>, <<"_", "3", "3", "2">>, <<"a">> }

JavaInputs ==
  { [text |-> ToStr(n) \o sfx, major |-> n, parts |-> <<>>] :
      n \in 0..MaxMajor, sfx \in JavaSuffixes }
  \cup
  { [text |-> t, major |-> NoMajor, parts |-> <<>>] :
      t \in { <<>>, <<"a">>, <<".", "1">>, <<"a", "8">> } }

\* Full version strings of the legacy form 1.X.0_build, X the major.
LegacyJavaVersions ==
  { [text  |-> <<"1", ".">> \o ToStr(x) \o <<".", "0", "_">> \o build,
     major |-> x, parts |-> <<>>] :
      x \in 0..MaxMajor, build \in { <<"3", "3", "2">>, <<"0", "5">> } }

\* Full version strings of the modern form X.Y.Z..., X the major (the strings
\* starting with "1." are those of the legacy form).
ModernJavaVersions ==
  { [text |-> ToStr(x) \o rest, major |-> x, parts |-> <<>>] :
      x \in 2..MaxMajor,
      rest \in { <<".", "0", ".", "2">>, <<".", "0", ".", "1", "6">>,
                 <<".", "0", ".", "1", "+", "1", "2">>, <<".", "1", ".", "8">> } }

MavenMajors == {2, 3}

MavenComponents == {0, 5, 9, 10}

\* A major, then up to MaxParts - 1 further components.
MavenPartSeqs ==
  UNION { { <<m>> \o rest : m \in MavenMajors, rest \in [1..n -> MavenComponents] } :
            n \in 0..(MaxParts - 1) }

RenderParts(ps) == Join([i \in 1..Len(ps) |-> ToStr(ps[i])], <<".">>)

\* Versions whose components are not all plain numbers: no ordering is
\* stated for them (parts is empty).
IrregularMavenTexts ==
  { <<"3", ".", "9", ".", "5", "-", "a">>,
    <<"3", ".", "a">>,
    <<"3", ".", ".", "5">>,
    <<>> }

MavenInputs ==
  { [text |-> RenderParts(ps), major |-> NoMajor, parts |-> ps] :
      ps \in MavenPartSeqs }
  \cup
  { [text |-> t, major |-> NoMajor, parts |-> <<>>] : t \in IrregularMavenTexts }

(***************************************************************************)
(* EnvironmentManager: detection, resolution, installation, verification.  *)
(*                                                                         *)
(* Messages are sequences of strings: a literal part of a template is one  *)
(* element, an interpolated version contributes its characters.            *)
(***************************************************************************)
Lit(s) == <<s>>

None == <<>>

\* A dotted version literal, e.g. Dotted(<<3, 9, 5>>) is "3.9.5".
Dotted(ps) == RenderParts(ps)

supportedJavaVersions == <<ToStr(8), ToStr(11), ToStr(17), ToStr(21)>>

supportedJavaDistributions ==
  <<"temurin", "zulu", "adopt", "liberica", "microsoft", "corretto">>

supportedMavenVersions ==
  <<Dotted(<<3, 6, 3>>), Dotted(<<3, 8, 1>>), Dotted(<<3, 8, 6>>),
    Dotted(<<3, 9, 0>>), Dotted(<<3, 9, 5>>), Dotted(<<3, 9, 6>>)>>

\* Array.prototype.includes.
Includes(arr, x) == \E i \in 1..Len(arr) : arr[i] = x

\* The requirements an EnvironmentManager is constructed with.
RequiredJavaVersions == {ToStr(8), ToStr(17), ToStr(21), ToStr(99)}

RequiredJavaDistributions == {"temurin", "zulu", "oracle"}

RequiredMavenVersions ==
  {Dotted(<<3, 8, 1>>), Dotted(<<3, 9, 5>>), Dotted(<<2, 0, 0>>)}

\* What `java -version` does on the host: the exec exits non-zero, throws,
\* prints nothing that matches /version "([^"]+)"/, or prints a version.
JavaFullVersions ==
  { <<"1", ".", "8", ".", "0", "_", "3", "3", "2">>,
    Dotted(<<11, 0, 16>>), Dotted(<<17, 0, 2>>), Dotted(<<21, 0, 1>>) }

NoJava(status) ==
  [status |-> status, fullVersion |-> None, vendor |-> "", home |-> None]

HostJavaStates ==
  { NoJava(st) : st \in {"nonzero", "throws", "nomatch"} }
  \cup
  { [status |-> "ok", fullVersion |-> v, vendor |-> vd, home |-> Lit("/opt/java")] :
      v \in JavaFullVersions, vd \in {"Eclipse Temurin", "Zulu"} }

\* What `mvn -version` does on the host.
NoMaven(status) == [status |-> status, version |-> None, home |-> None]

HostMavenStates ==
  { NoMaven(st) : st \in {"nonzero", "throws", "nomatch"} }
  \cup
  { [status |-> "ok", version |-> v, home |-> Lit("/opt/maven")] :
      v \in { Dotted(<<3, 8, 1>>), Dotted(<<3, 9, 5>>), Dotted(<<3, 10, 0>>),
              Dotted(<<3, 9>>) } }

extractMajorJavaVersion(fullVersion) ==
  IF StartsWith(fullVersion, <<"1", ".", "8">>) THEN ToStr(8)
  ELSE IF LeadingDigits(fullVersion) # <<>> THEN LeadingDigits(fullVersion)
  ELSE fullVersion

NotAvailable ==
  [available |-> FALSE, version |-> None, fullVersion |-> None,
   vendor |-> "", home |-> None]

\* getCurrentJavaVersion: the detected tool, for what the host answers.
getCurrentJavaVersion(host, env) ==
  IF host.status # "ok" THEN NotAvailable
  ELSE [available   |-> TRUE,
        version     |-> extractMajorJavaVersion(host.fullVersion),
        fullVersion |-> host.fullVersion,
        vendor      |-> host.vendor,
        home        |-> IF env.JAVA_HOME # None THEN env.JAVA_HOME ELSE host.home]

\* Mutant: the version query is made twice.
JavaDetectionCalls_twice(host, env) ==
  <<"getCurrentJavaVersion", "exec java -version",
    "getCurrentJavaVersion", "exec java -version">>

\* The collaborator calls getCurrentJavaVersion makes.
JavaDetectionCalls(host, env) ==
  <<"getCurrentJavaVersion", "exec java -version">>
  \o (IF host.status = "ok" /\ env.JAVA_HOME = None
      THEN <<"exec java -XshowSettings:properties -version">> ELSE <<>>)

getCurrentMavenVersion(host) ==
  IF host.status # "ok" THEN NotAvailable
  ELSE [available   |-> TRUE,
        version     |-> host.version,
        fullVersion |-> host.version,
        vendor      |-> "",
        home        |-> host.home]

MavenDetectionCalls == <<"getCurrentMavenVersion", "exec mvn -version">>

\* The outcome records of setupJava / setupMaven (absent fields are None / "").
Outcome(action, version, vendor, distribution, path, warning) ==
  [action |-> action, version |-> version, vendor |-> vendor,
   distribution |-> distribution, path |-> path, warning |-> warning]

NoOutcome == Outcome("none", None, "", "", None, None)

MismatchWarning(current, required) ==
  Lit("Version mismatch: current ") \o current \o Lit(", required ") \o required

\* Mutant: a present tool that is not compatible is installed over.
setupJavaBranch_reinstall(currentJava, required) ==
  IF currentJava.available /\ isJavaVersionCompatible(currentJava.version, required)
  THEN "existing"
  ELSE "install"

\* Mutant: a present tool that is compatible but not equal is reused with a
\* warning.
setupJavaBranch_strict(currentJava, required) ==
  IF currentJava.available
  THEN IF currentJava.version = required THEN "existing" ELSE "warning"
  ELSE "install"

\* Mutant: a tool that is not detected is not installed.
setupJavaBranch_noInstall(currentJava, required) ==
  IF currentJava.available /\ isJavaVersionCompatible(currentJava.version, required)
  THEN "existing"
  ELSE "warning"

\* The branch setupJava takes.
setupJavaBranch(currentJava, required) ==
  IF currentJava.available
  THEN IF isJavaVersionCompatible(currentJava.version, required)
       THEN "existing" ELSE "warning"
  ELSE "install"

\* The branch setupMaven takes.
setupMavenBranch(currentMaven, required) ==
  IF currentMaven.available
  THEN IF isMavenVersionCompatible(currentMaven.version, required)
       THEN "existing" ELSE "warning"
  ELSE "install"

\* Mutant: installJava without its allow-list checks.
installJavaCheck_none(version, distribution) == None

\* The allow-list checks that open installJava: the error thrown, or None.
installJavaCheck(version, distribution) ==
  IF ~Includes(supportedJavaVersions, version)
  THEN Lit("Unsupported Java version: ") \o version \o Lit(". Supported: ")
         \o Join(supportedJavaVersions, Lit(", "))
  ELSE IF ~Includes(supportedJavaDistributions, distribution)
  THEN Lit("Unsupported Java distribution: ") \o Lit(distribution)
         \o Lit(". Supported: ")
         \o Join([i \in 1..Len(supportedJavaDistributions) |->
                    Lit(supportedJavaDistributions[i])], Lit(", "))
  ELSE None

\* The allow-list check that opens installMaven.
installMavenCheck(version) ==
  IF ~Includes(supportedMavenVersions, version)
  THEN Lit("Unsupported Maven version: ") \o version \o Lit(". Supported: ")
         \o Join(supportedMavenVersions, Lit(", "))
  ELSE None

\* getJavaDownloadUrl: a locator for temurin, an error for any other
\* distribution.
getJavaDownloadUrl(version, distribution) ==
  IF distribution = "temurin"
  THEN [threw |-> FALSE, value |-> Lit("temurin-binaries/jdk-") \o version]
  ELSE [threw |-> TRUE,
        value |-> Lit("Download URL not configured for ") \o Lit(distribution)
                    \o Lit(" ") \o version]

\* What the download / extract / tool-cache collaborators do on a miss.
NetOutcomes == {"ok", "downloadFails", "extractFails", "cacheDirFails"}

ToolPath(toolName, version) == Lit("toolcache/") \o toolName \o Lit("/") \o version

\* Mutant: the home directory itself is put on the PATH.
BinPath_home(home) == home

BinPath(home) == home \o Lit("/bin")

\* The effects of one install attempt.
Effects(threw, error, calls, path, cache, pathVar, env) ==
  [threw |-> threw, error |-> error, calls |-> calls, path |-> path,
   toolCache |-> cache, PATH |-> pathVar, envVars |-> env]

\* downloadAndSetupJava, given what the collaborators do (net).
downloadAndSetupJava(version, distribution, net, cache, pathVar, env) ==
  LET toolName == Lit("Java_") \o Lit(distribution)
      hit      == <<toolName, version>> \in cache
      javaPath == ToolPath(toolName, version)
      url      == getJavaDownloadUrl(version, distribution)
      register(calls, cache2) ==
        Effects(FALSE, None,
                calls \o <<"core.addPath", "core.exportVariable JAVA_HOME">>,
                javaPath, cache2, <<BinPath(javaPath)>> \o pathVar,
                [env EXCEPT !.JAVA_HOME = javaPath])
      fail(calls, msg) == Effects(TRUE, msg, calls, None, cache, pathVar, env)
  IN  IF hit THEN register(<<"tc.find">>, cache)
      ELSE IF url.threw THEN fail(<<"tc.find">>, url.value)
      ELSE IF net = "downloadFails"
      THEN fail(<<"tc.find", "tc.downloadTool">>, Lit("download failed"))
      ELSE IF net = "extractFails"
      THEN fail(<<"tc.find", "tc.downloadTool", "tc.extractTar">>,
                Lit("extract failed"))
      ELSE IF net = "cacheDirFails"
      THEN fail(<<"tc.find", "tc.downloadTool", "tc.extractTar", "tc.cacheDir">>,
                Lit("cacheDir failed"))
      ELSE register(<<"tc.find", "tc.downloadTool", "tc.extractTar", "tc.cacheDir">>,
                    cache \cup {<<toolName, version>>})

\* downloadAndSetupMaven, given what the collaborators do (net).
downloadAndSetupMaven(version, net, cache, pathVar, env) ==
  LET toolName  == Lit("Maven")
      hit       == <<toolName, version>> \in cache
      mavenPath == ToolPath(toolName, version)
      register(calls, cache2) ==
        Effects(FALSE, None,
                calls \o <<"core.addPath", "core.exportVariable M2_HOME",
                           "core.exportVariable MAVEN_HOME">>,
                mavenPath, cache2, <<BinPath(mavenPath)>> \o pathVar,
                [env EXCEPT !.M2_HOME = mavenPath, !.MAVEN_HOME = mavenPath])
      fail(calls, msg) == Effects(TRUE, msg, calls, None, cache, pathVar, env)
  IN  IF hit THEN register(<<"tc.find">>, cache)
      ELSE IF net = "downloadFails"
      THEN fail(<<"tc.find", "tc.downloadTool">>, Lit("download failed"))
      ELSE IF net = "extractFails"
      THEN fail(<<"tc.find", "tc.downloadTool", "tc.extractTar">>,
                Lit("extract failed"))
      ELSE IF net = "cacheDirFails"
      THEN fail(<<"tc.find", "tc.downloadTool", "tc.extractTar", "tc.cacheDir">>,
                Lit("cacheDir failed"))
      ELSE register(<<"tc.find", "tc.downloadTool", "tc.extractTar", "tc.cacheDir">>,
                    cache \cup {<<toolName, version>>})

\* installJava: the allow-list checks, then downloadAndSetupJava; any error
\* is rethrown behind "Java installation failed: ".
installJava(version, distribution, net, cache, pathVar, env) ==
  LET check == installJavaCheck(version, distribution)
      setup == downloadAndSetupJava(version, distribution, net, cache, pathVar, env)
  IN  IF check # None
      THEN Effects(TRUE, Lit("Java installation failed: ") \o check,
                   <<"installJava">>, None, cache, pathVar, env)
      ELSE [setup EXCEPT
              !.calls = <<"installJava">> \o setup.calls,
              !.error = IF setup.threw
                        THEN Lit("Java installation failed: ") \o setup.error
                        ELSE None]

\* installMaven: the allow-list check, then downloadAndSetupMaven.
installMaven(version, net, cache, pathVar, env) ==
  LET check == installMavenCheck(version)
      setup == downloadAndSetupMaven(version, net, cache, pathVar, env)
  IN  IF check # None
      THEN Effects(TRUE, Lit("Maven installation failed: ") \o check,
                   <<"installMaven">>, None, cache, pathVar, env)
      ELSE [setup EXCEPT
              !.calls = <<"installMaven">> \o setup.calls,
              !.error = IF setup.threw
                        THEN Lit("Maven installation failed: ") \o setup.error
                        ELSE None]

\* What `java -version` answers once the installed JDK is first on PATH: the
\* required version, or nothing usable (a broken archive).
InstalledJava(version, distribution, works) ==
  IF works
  THEN [status |-> "ok",
        fullVersion |-> IF version = ToStr(8)
                        THEN <<"1", ".", "8", ".", "0", "_", "3", "3", "2">>
                        ELSE version \o <<".", "0", ".", "1">>,
        vendor |-> distribution,
        home |-> ToolPath(Lit("Java_") \o Lit(distribution), version)]
  ELSE NoJava("nonzero")

InstalledMaven(version, works) ==
  IF works
  THEN [status |-> "ok", version |-> version,
        home |-> ToolPath(Lit("Maven"), version)]
  ELSE NoMaven("nonzero")

\* Mutant: verifyEnvironment that checks Java only.
verifyEnvironmentError_javaOnly(javaCheck, mavenCheck) ==
  IF ~javaCheck.available
  THEN Lit("Environment verification failed: ")
         \o Lit("Java verification failed - not available after setup")
  ELSE None

\* verifyEnvironment: the error thrown, or None.
verifyEnvironmentError(javaCheck, mavenCheck) ==
  IF ~javaCheck.available
  THEN Lit("Environment verification failed: ")
         \o Lit("Java verification failed - not available after setup")
  ELSE IF ~mavenCheck.available
  THEN Lit("Environment verification failed: ")
         \o Lit("Maven verification failed - not available after setup")
  ELSE None

(***************************************************************************)
(* CacheManager: manifest scan, cache key, restore keys.                   *)
(*                                                                         *)
(* Keys are strings of characters.  The project tree is a set of directory *)
(* paths (sequences of names, <<>> the working directory) and, for each    *)
(* directory, what its pom.xml is: missing, unreadable, or its content.    *)
(***************************************************************************)
MavenDeps == <<"m", "a", "v", "e", "n", "-", "d", "e", "p", "s">>

Dash == <<"-">>

DashJava == <<"-", "j", "a", "v", "a">>

DashMaven == <<"-", "m", "a", "v", "e", "n">>

Linux == <<"l", "i", "n", "u", "x">>

Darwin == <<"d", "a", "r", "w", "i", "n">>

Win32 == <<"w", "i", "n", "3", "2">>

Platforms == {Linux, Darwin, Win32}

\* Character codes (ASCII) of the characters that occur in hashed strings.
Punctuation == <<"-", ".", "/">>

UpperCase ==
  <<"A", "B", "C", "D", "E", "F", "G", "H", "I", "J", "K", "L", "M",
    "N", "O", "P", "Q", "R", "S", "T", "U", "V", "W", "X", "Y", "Z">>

LowerCase ==
  <<"a", "b", "c", "d", "e", "f", "g", "h", "i", "j", "k", "l", "m",
    "n", "o", "p", "q", "r", "s", "t", "u", "v", "w", "x", "y", "z">>

IndexIn(table, c) == CHOOSE i \in 1..Len(table) : table[i] = c

In(table, c) == \E i \in 1..Len(table) : table[i] = c

CharCode(c) ==
  IF In(Punctuation, c) THEN 44 + IndexIn(Punctuation, c)
  ELSE IF In(DigitChars, c) THEN 47 + IndexIn(DigitChars, c)
  ELSE IF In(UpperCase, c) THEN 64 + IndexIn(UpperCase, c)
  ELSE 96 + IndexIn(LowerCase, c)

HexChars ==
  <<"0", "1", "2", "3", "4", "5", "6", "7", "8", "9", "a", "b", "c", "d", "e", "f">>

\* The two hexadecimal digits of each character's code.
HexOfChar ==
  [c \in {Punctuation[i] : i \in 1..Len(Punctuation)}
           \cup {DigitChars[i] : i \in 1..Len(DigitChars)}
           \cup {UpperCase[i] : i \in 1..Len(UpperCase)}
           \cup {LowerCase[i] : i \in 1..Len(LowerCase)} |->
     <<HexChars[(CharCode(c) \div 16) + 1], HexChars[(CharCode(c) % 16) + 1]>>]

\* crypto.createHash('sha256').update(input).digest('hex'), modelled as an
\* injective function from strings to strings of hexadecimal digits: the
\* digest of an input is the hexadecimal spelling of its bytes, so that two
\* digests are equal exactly when the hashed inputs are.
RECURSIVE sha256hex(_)
sha256hex(input) ==
  IF input = <<>> THEN <<>>
  ELSE HexOfChar[Head(input)] \o sha256hex(Tail(input))

\* Directory names.
DirA == <<"a">>

DirB == <<"b">>

DotGit == <<".", "g", "i", "t">>

Target == <<"t", "a", "r", "g", "e", "t">>

DirNames == {DirA, DirB, DotGit, Target}

\* What a directory's pom.xml is.
NoFile == <<"ENOENT">>

Unreadable == <<"EACCES">>

Contents == { <<"A">>, <<"B">>, <<"A", "B">> }

\* The chain a, a/a, a/a/a, ... of n nested module directories.
Chain(n) == { [i \in 1..k |-> DirA] : k \in 1..n }

\* The names of the directories of a tree.
NamesIn(dirs) == { d[Len(d)] : d \in dirs \ {<<>>} }

\* The orders fs.readdir may list entries in: every order of the names that
\* occur in the tree.
ListingOrders(dirs) ==
  LET names == NamesIn(dirs)
      n     == Cardinality(names)
  IN  { o \in [1..n -> names] : \A i, j \in 1..n : i # j => o[i] # o[j] }

\* The sub-sequence of s whose elements satisfy keep.
RECURSIVE SelectIn(_, _)
SelectIn(s, keep) ==
  IF s = <<>> THEN <<>>
  ELSE (IF Head(s) \in keep THEN <<Head(s)>> ELSE <<>>) \o SelectIn(Tail(s), keep)

\* fs.readdir(dir, { withFileTypes: true }): the sub-directories of dir, in
\* the order the file system lists them in.  (Entries that are files are not
\* directories and are passed over by the scan.)
readdir(dirs, dir, order) ==
  SelectIn(order, { n \in DirNames : dir \o <<n>> \in dirs })

\* fileExists(path.join(dir, 'pom.xml')).
fileExists(poms, dir) == poms[dir] # NoFile

\* Mutant: the recursion stops one level later.
depthLimitReached_late(depth) == depth > 6

\* `if (depth > 5) return;`
depthLimitReached(depth) == depth > 5

\* Mutant: only hidden directories are passed over.
isScannedDirectory_hiddenOnly(name) == ~StartsWith(name, <<".">>)

\* `entry.isDirectory() && !entry.name.startsWith('.') && entry.name !== 'target'`
\* for an entry that is a directory.
isScannedDirectory(name) == ~StartsWith(name, <<".">>) /\ name # Target

\* findPomFilesRecursive, returning the manifests it pushes, in order.  A
\* manifest is named by the directory that holds it.
RECURSIVE findPomFilesRecursive(_, _, _, _, _)
RECURSIVE VisitEntries(_, _, _, _, _, _)
VisitEntries(dirs, poms, order, dir, depth, entries) ==
  IF entries = <<>> THEN <<>>
  ELSE LET name   == Head(entries)
           subDir == dir \o <<name>>
       IN  (IF isScannedDirectory(name)
            THEN (IF fileExists(poms, subDir) THEN <<subDir>> ELSE <<>>)
                   \o findPomFilesRecursive(dirs, poms, order, subDir, depth + 1)
            ELSE <<>>)
           \o VisitEntries(dirs, poms, order, dir, depth, Tail(entries))

findPomFilesRecursive(dirs, poms, order, dir, depth) ==
  IF depthLimitReached(depth) THEN <<>>
  ELSE VisitEntries(dirs, poms, order, dir, depth, readdir(dirs, dir, order))

\* The directories findPomFilesRecursive passes to fs.readdir, in order.
RECURSIVE readdirCalls(_, _, _, _)
RECURSIVE readdirCallsIn(_, _, _, _, _)
readdirCallsIn(dirs, order, dir, depth, entries) ==
  IF entries = <<>> THEN <<>>
  ELSE (IF isScannedDirectory(Head(entries))
        THEN readdirCalls(dirs, order, dir \o <<Head(entries)>>, depth + 1)
        ELSE <<>>)
       \o readdirCallsIn(dirs, order, dir, depth, Tail(entries))

readdirCalls(dirs, order, dir, depth) ==
  IF depthLimitReached(depth) THEN <<>>
  ELSE <<dir>> \o readdirCallsIn(dirs, order, dir, depth, readdir(dirs, dir, order))

findPomFiles(dirs, poms, order) ==
  (IF fileExists(poms, <<>>) THEN << <<>> >> ELSE <<>>)
    \o findPomFilesRecursive(dirs, poms, order, <<>>, 0)

\* Mutant: only the first manifest found is read.
pomContents_first(poms, pomFiles) ==
  IF pomFiles = <<>> \/ poms[Head(pomFiles)] = Unreadable THEN <<>>
  ELSE <<poms[Head(pomFiles)]>>

\* The loop of generateCacheKey: the contents of the manifests that can be
\* read, in the order found.
RECURSIVE pomContents(_, _)
pomContents(poms, pomFiles) ==
  IF pomFiles = <<>> THEN <<>>
  ELSE (IF poms[Head(pomFiles)] = Unreadable THEN <<>>
        ELSE <<poms[Head(pomFiles)]>>)
       \o pomContents(poms, Tail(pomFiles))

\* Mutant: the parts are concatenated with nothing between them.
hashInput_plain(os, javaVersion, mavenVersion, contents) ==
  os \o javaVersion \o mavenVersion \o Join(contents, <<>>)

\* `${os}-java${javaVersion}-maven${mavenVersion}-${pomContents.join('')}`
hashInput(os, javaVersion, mavenVersion, contents) ==
  os \o DashJava \o javaVersion \o DashMaven \o mavenVersion \o Dash
    \o Join(contents, <<>>)

\* generateCacheKey for the manifests a scan found.
cacheKeyOf(poms, pomFiles, os, javaVersion, mavenVersion) ==
  MavenDeps \o Dash
    \o sha256hex(hashInput(os, javaVersion, mavenVersion,
                           pomContents(poms, pomFiles)))

generateCacheKey(dirs, poms, order, os, javaVersion, mavenVersion) ==
  cacheKeyOf(poms, findPomFiles(dirs, poms, order), os, javaVersion, mavenVersion)

\* Mutant: the platform is left out of the third key.
generateRestoreKeys_noOs(os, javaVersion, mavenVersion) ==
  << MavenDeps \o Dash \o os \o DashJava \o javaVersion \o DashMaven \o mavenVersion,
     MavenDeps \o Dash \o os \o DashJava \o javaVersion,
     MavenDeps \o DashJava \o javaVersion,
     MavenDeps >>

generateRestoreKeys(os, javaVersion, mavenVersion) ==
  << MavenDeps \o Dash \o os \o DashJava \o javaVersion \o DashMaven \o mavenVersion,
     MavenDeps \o Dash \o os \o DashJava \o javaVersion,
     MavenDeps \o Dash \o os,
     MavenDeps >>

(***************************************************************************)
(* InputValidator: the inputs of the action and their validation.          *)
(***************************************************************************)
Whitespace == {" ", "\t", "\n", "\r"}

RECURSIVE trimStart(_)
trimStart(s) ==
  IF s # <<>> /\ Head(s) \in Whitespace THEN trimStart(Tail(s)) ELSE s

RECURSIVE trimEnd(_)
trimEnd(s) ==
  IF s # <<>> /\ s[Len(s)] \in Whitespace
  THEN trimEnd(SubSeq(s, 1, Len(s) - 1)) ELSE s

\* String.prototype.trim.
trim(s) == trimEnd(trimStart(s))

\* core.getInput(name): the value the runner passes for the input, trimmed.
getInput(raw) == trim(raw)

\* String.prototype.toLowerCase.
toLowerCase(s) ==
  [i \in 1..Len(s) |->
     IF In(UpperCase, s[i]) THEN LowerCase[IndexIn(UpperCase, s[i])] ELSE s[i]]

\* String.prototype.includes.
includes(s, t) ==
  \E i \in 0..(Len(s) - Len(t)) : SubSeq(s, i + 1, i + Len(t)) = t

\* String.prototype.endsWith.
endsWith(s, t) ==
  Len(t) <= Len(s) /\ SubSeq(s, Len(s) - Len(t) + 1, Len(s)) = t

\* String.prototype.split(/\s+/).
RECURSIVE splitOnWhitespace(_)
splitOnWhitespace(s) ==
  IF \A i \in 1..Len(s) : s[i] \notin Whitespace THEN <<s>>
  ELSE LET k == CHOOSE i \in 1..Len(s) :
                  s[i] \in Whitespace /\ \A j \in 1..(i - 1) : s[j] \notin Whitespace
       IN  <<SubSeq(s, 1, k - 1)>>
             \o splitOnWhitespace(trimStart(SubSeq(s, k, Len(s))))

OpValidate == <<"v", "a", "l", "i", "d", "a", "t", "e">>

OpCompile == <<"c", "o", "m", "p", "i", "l", "e">>

OpTest == <<"t", "e", "s", "t">>

OpPackage == <<"p", "a", "c", "k", "a", "g", "e">>

OpVerify == <<"v", "e", "r", "i", "f", "y">>

OpInstall == <<"i", "n", "s", "t", "a", "l", "l">>

OpDeploy == <<"d", "e", "p", "l", "o", "y">>

OpClean == <<"c", "l", "e", "a", "n">>

validOperations ==
  <<OpValidate, OpCompile, OpTest, OpPackage, OpVerify, OpInstall, OpDeploy, OpClean>>

validJavaVersions == <<ToStr(8), ToStr(11), ToStr(17), ToStr(21)>>

validJavaDistributions == <<"oracle", "corretto">>

maxPathLength == 260

maxStringLength == 1000

generateOperationSuggestions(invalid) ==
  IF includes(invalid, <<"b", "u", "i", "l", "d">>)
  THEN Lit("Did you mean \"compile\" or \"package\"?")
  ELSE IF includes(invalid, <<"r", "u", "n">>) THEN Lit("Did you mean \"test\"?")
  ELSE IF includes(invalid, <<"p", "u", "b", "l", "i", "s", "h">>) THEN Lit("Did you mean \"deploy\"?")
  ELSE <<>>

InvalidOperation(operation, suggestions) ==
  Lit("- operation: Invalid value '") \o operation \o Lit("'. Must be one of: ")
    \o Join(validOperations, Lit(", "))
    \o (IF suggestions # <<>> THEN Lit(". ") \o suggestions ELSE <<>>)

\* Each validate... below returns the errors it pushes.
validateOperation(operation) ==
  IF operation = <<>>
  THEN << Lit("- operation: Required input is missing") >>
  ELSE IF \A i \in 1..Len(operation) : operation[i] \in Whitespace
  THEN << InvalidOperation(operation, <<>>) >>
  ELSE IF includes(operation, <<",">>)
  THEN << Lit("- operation: Multiple operations not supported. Please specify only one operation.") >>
  ELSE LET trimmedOperation == toLowerCase(trim(operation))
       IN  IF ~Includes(validOperations, trimmedOperation)
           THEN << InvalidOperation(operation,
                                    generateOperationSuggestions(trimmedOperation)) >>
           ELSE <<>>

validateJavaVersion(javaVersion) ==
  IF javaVersion # <<>> /\ ~Includes(validJavaVersions, javaVersion)
  THEN << Lit("- java-version: Invalid value '") \o javaVersion
            \o Lit("'. Must be one of: ") \o Join(validJavaVersions, Lit(", ")) >>
  ELSE <<>>

\* The distribution is a name, "" when the input is not given.
validateJavaDistribution(javaDistribution) ==
  IF javaDistribution # "" /\ ~Includes(validJavaDistributions, javaDistribution)
  THEN << Lit("- java-distribution: Invalid value '") \o Lit(javaDistribution)
            \o Lit("'. Must be one of: oracle, corretto") >>
  ELSE <<>>

\* /^\d+\.\d+\.\d+$/
IsThreeNumbers(s) ==
  LET parts == Split(s, ".")
  IN  /\ Len(parts) = 3
      /\ \A i \in 1..3 :
           parts[i] # <<>> /\ \A j \in 1..Len(parts[i]) : IsDigit(parts[i][j])

validateMavenVersion(mavenVersion) ==
  IF mavenVersion # <<>> /\ ~IsThreeNumbers(mavenVersion)
  THEN << Lit("- maven-version: Invalid format '") \o mavenVersion
            \o Lit("'. Must be in format X.Y.Z (e.g., 3.9.5)") >>
  ELSE <<>>

\* /[<>:"|?*\x00-\x1f]/
containsInvalidPathChars(inputPath) ==
  \E i \in 1..Len(inputPath) :
    inputPath[i] \in {"<", ">", ":", "\"", "|", "?", "*", "\t", "\n", "\r"}

validateWorkingDirectory(workingDir) ==
  IF workingDir = <<>> THEN <<>>
  ELSE (IF Len(workingDir) > maxPathLength
        THEN << Lit("- working-directory: Path too long (") \o ToStr(Len(workingDir))
                  \o Lit(" > ") \o ToStr(maxPathLength) \o Lit(")") >>
        ELSE <<>>)
       \o (IF containsInvalidPathChars(workingDir)
           THEN << Lit("- working-directory: Contains invalid characters") >>
           ELSE <<>>)

validateSettingsFile(settingsFile) ==
  IF settingsFile = <<>> THEN <<>>
  ELSE (IF ~endsWith(settingsFile, <<".", "x", "m", "l">>)
        THEN << Lit("- settings-file: Must be an XML file (*.xml)") >>
        ELSE <<>>)
       \o (IF Len(settingsFile) > maxPathLength
           THEN << Lit("- settings-file: Path too long (") \o ToStr(Len(settingsFile))
                     \o Lit(" > ") \o ToStr(maxPathLength) \o Lit(")") >>
           ELSE <<>>)

dangerousArgs ==
  << <<"-", "-", "s", "e", "t", "t", "i", "n", "g", "s">>, <<"-", "s">>, <<"-", "-", "f", "i", "l", "e">>, <<"-", "f">>, <<"-", "-", "b", "a", "t", "c", "h", "-", "m", "o", "d", "e">>, <<"-", "B">>,
     <<"-", "-", "q", "u", "i", "e", "t">>, <<"-", "q">>, <<"-", "-", "d", "e", "b", "u", "g">>, <<"-", "X">> >>

\* The backquote character, one element of a string like any other.
Backquote == "BACKQUOTE"

containsCommandInjection(input) ==
  \E pattern \in { <<";">>, <<"&", "&">>, <<"|", "|">>, <<"|">>, <<Backquote>>,
                   <<"$", "(">>, <<"$", "{">>, <<"\n">>, <<"\r">> } :
    includes(input, pattern)

validateMavenArgs(mavenArgs) ==
  IF mavenArgs = <<>> THEN <<>>
  ELSE LET argsList == splitOnWhitespace(mavenArgs)
       IN  (IF Len(mavenArgs) > maxStringLength
            THEN << Lit("- maven-args: Too long (") \o ToStr(Len(mavenArgs))
                      \o Lit(" > ") \o ToStr(maxStringLength) \o Lit(")") >>
            ELSE <<>>)
           \o [i \in 1..Cardinality({ j \in 1..Len(argsList) :
                                        Includes(dangerousArgs, argsList[j]) }) |->
                 LET k == CHOOSE j \in 1..Len(argsList) :
                            /\ Includes(dangerousArgs, argsList[j])
                            /\ Cardinality({ m \in 1..j :
                                 Includes(dangerousArgs, argsList[m]) }) = i
                 IN  Lit("- maven-args: Argument '") \o argsList[k]
                       \o Lit("' not allowed. Use dedicated inputs instead.")]
           \o (IF containsCommandInjection(mavenArgs)
               THEN << Lit("- maven-args: Potential command injection detected") >>
               ELSE <<>>)

validateBooleanInputs(cacheEnabledInput) ==
  IF cacheEnabledInput # <<>>
       /\ toLowerCase(cacheEnabledInput) \notin { <<"t", "r", "u", "e">>, <<"f", "a", "l", "s", "e">> }
  THEN << Lit("- cache-enabled: Must be 'true' or 'false', got '")
            \o cacheEnabledInput \o Lit("'") >>
  ELSE <<>>

\* core.getBooleanInput(name): true | True | TRUE | false | False | FALSE, a
\* TypeError for anything else.
getBooleanInput(value) ==
  IF value \in { <<"t", "r", "u", "e">>, <<"T", "r", "u", "e">>, <<"T", "R", "U", "E">> }
  THEN [threw |-> FALSE, value |-> TRUE, error |-> None]
  ELSE IF value \in { <<"f", "a", "l", "s", "e">>, <<"F", "a", "l", "s", "e">>, <<"F", "A", "L", "S", "E">> }
  THEN [threw |-> FALSE, value |-> FALSE, error |-> None]
  ELSE [threw |-> TRUE, value |-> FALSE,
        error |-> Lit("Input does not meet YAML 1.2 \"Core Schema\" specification: cache-enabled")]

OrDefault(value, default) == IF value # <<>> THEN value ELSE default

\* getValidatedInputs, given what getBooleanInput returned.
getValidatedInputs(in, cacheEnabledValue) ==
  [operation        |-> getInput(in.operation),
   javaVersion      |-> OrDefault(getInput(in.javaVersion), ToStr(17)),
   javaDistribution |-> IF in.javaDistribution # "" THEN in.javaDistribution
                        ELSE "corretto",
   mavenVersion     |-> OrDefault(getInput(in.mavenVersion), Dotted(<<3, 9, 5>>)),
   workingDirectory |-> OrDefault(getInput(in.workingDirectory), <<".">>),
   settingsFile     |-> getInput(in.settingsFile),
   mavenArgs        |-> getInput(in.mavenArgs),
   cacheEnabled     |-> cacheEnabledValue]

\* The errors validateInputs collects, in the order of its calls.
validationErrorsOf(in) ==
  validateOperation(getInput(in.operation))
    \o validateJavaVersion(getInput(in.javaVersion))
    \o validateJavaDistribution(in.javaDistribution)
    \o validateMavenVersion(getInput(in.mavenVersion))
    \o validateWorkingDirectory(getInput(in.workingDirectory))
    \o validateSettingsFile(getInput(in.settingsFile))
    \o validateMavenArgs(getInput(in.mavenArgs))
    \o validateBooleanInputs(getInput(in.cacheEnabled))

\* Mutant: the collected errors are not looked at.
hasValidationErrors_never(validationErrors) == FALSE

\* `if (validationErrors.length > 0)`
hasValidationErrors(validationErrors) == Len(validationErrors) > 0

NoInputs ==
  [operation |-> <<>>, javaVersion |-> <<>>, javaDistribution |-> "",
   mavenVersion |-> <<>>, workingDirectory |-> <<>>, settingsFile |-> <<>>,
   mavenArgs |-> <<>>, cacheEnabled |-> FALSE]

\* validateInputs: the validated inputs, or the error it throws after
\* core.setFailed.
validateInputs(in) ==
  LET validationErrors == validationErrorsOf(in)
      cacheEnabledValue == getBooleanInput(getInput(in.cacheEnabled))
  IN  IF hasValidationErrors(validationErrors)
      THEN [threw |-> TRUE, value |-> NoInputs,
            error |-> Lit("Input validation failed:") \o <<"\n">>
                        \o Join(validationErrors, <<"\n">>)]
      ELSE IF cacheEnabledValue.threw
      THEN [threw |-> TRUE, value |-> NoInputs, error |-> cacheEnabledValue.error]
      ELSE [threw |-> FALSE, error |-> None,
            value |-> getValidatedInputs(in, cacheEnabledValue.value)]

(***************************************************************************)
(* MavenActionHandler, MavenExecutor, OutputManager: what execute returns  *)
(* and what run does with it.                                              *)
(***************************************************************************)
\* The cases of the switch of executeMavenOperation.
switchCases ==
  <<OpValidate, OpCompile, OpTest, OpPackage, OpVerify, OpInstall, OpDeploy>>

\* executeMavenOperation: the phase the executor is asked for, or the error
\* of the default case.
executeMavenOperation(operation) ==
  IF Includes(switchCases, operation)
  THEN [threw |-> FALSE, phase |-> operation, error |-> None]
  ELSE [threw |-> TRUE, phase |-> <<>>,
        error |-> Lit("Unsupported Maven operation: ") \o operation]

\* executeMavenCommand: the command line handed to exec.exec.  (skipTests is
\* not among the validated inputs, so no phase adds -DskipTests.)
executeMavenCommand(phase, settingsFile, mavenArgs) ==
  << <<"m", "v", "n">>, phase >>
    \o (IF settingsFile # <<>> THEN << <<"-", "s">>, settingsFile >> ELSE <<>>)
    \o (IF mavenArgs # <<>> THEN Split(mavenArgs, " ") ELSE <<>>)
    \o << <<"-", "B">>, <<"-", "V">> >>

\* The error of exec.exec when mvn exits non-zero.
MavenFailed(exitCode) ==
  Lit("The process 'mvn' failed with exit code ") \o ToStr(exitCode)

\* getEnvironmentSummary.
getEnvironmentSummary(java, maven) ==
  [java  |-> [version |-> java.version, action |-> java.action,
              warning |-> java.warning],
   maven |-> [version |-> maven.version, action |-> maven.action,
              warning |-> maven.warning]]

\* this.environmentInfo before setupEnvironment has returned.
NoEnvironmentInfo == <<>>

\* Mutant: the catch reports success.
executeResult_alwaysSuccess(error, operation, artifactPath, environmentInfo) ==
  [buildStatus |-> Lit("success"), artifactPath |-> artifactPath,
   buildTime |-> 0, operation |-> operation, environment |-> environmentInfo]

\* The object execute returns: from the end of its try when error is None,
\* from its catch otherwise.
executeResult(error, operation, artifactPath, environmentInfo) ==
  IF error = None
  THEN [buildStatus |-> Lit("success"), artifactPath |-> artifactPath,
        buildTime |-> 0, operation |-> operation, environment |-> environmentInfo]
  ELSE [buildStatus |-> Lit("failure"), error |-> error,
        buildTime |-> 0, operation |-> operation, environment |-> environmentInfo]

\* Mutant: the steps of execute run in another order.
stepAfter_mavenFirst(step, enabled) ==
  IF step = "setupEnvironment" THEN "maven"
  ELSE IF step = "maven" THEN (IF enabled THEN "restore" ELSE "artifacts")
  ELSE IF step = "restore" THEN "artifacts"
  ELSE IF step = "artifacts" THEN (IF enabled THEN "save" ELSE "return")
  ELSE "return"

\* The step execute goes on to when step has returned.
stepAfter(step, enabled) ==
  IF step = "setupEnvironment" THEN (IF enabled THEN "restore" ELSE "maven")
  ELSE IF step = "restore" THEN "maven"
  ELSE IF step = "maven" THEN "artifacts"
  ELSE IF step = "artifacts" THEN (IF enabled THEN "save" ELSE "return")
  ELSE "return"

\* OutputManager.setOutput: an output is set unless the value is undefined
\* or null.  A property the object lacks is undefined.
OutputOf(name, obj, field) ==
  IF field \in DOMAIN obj THEN { <<name, obj[field]>> } ELSE {}

\* OutputManager.setOutputs: the outputs it sets, as <<name, value>> pairs.
setOutputs(result) ==
  OutputOf("status", result, "status")
    \cup { <<"build-time", ToStr(result.buildTime)>> }
    \cup (IF "artifactPath" \in DOMAIN result /\ Len(result.artifactPath) > 0
          THEN { <<"artifact-path", Join(result.artifactPath, <<",">>)>> }
          ELSE {})
    \cup (IF result.environment # NoEnvironmentInfo
          THEN LET environment == result.environment[1]
                   warnings ==
                     (IF environment.java.warning # None
                      THEN << Lit("Java: ") \o environment.java.warning >>
                      ELSE <<>>)
                     \o (IF environment.maven.warning # None
                         THEN << Lit("Maven: ") \o environment.maven.warning >>
                         ELSE <<>>)
               IN  { <<"java-version", environment.java.version>>,
                     <<"maven-version", environment.maven.version>> }
                   \cup (IF Len(warnings) > 0
                         THEN { <<"environment-warnings", Join(warnings, Lit("; "))>> }
                         ELSE {})
          ELSE {})
    \cup (IF "error" \in DOMAIN result /\ result.error # <<>>
          THEN { <<"error-message", result.error>> }
          ELSE {})

\* createJobSummary: the warning of its catch, None when the summary is
\* written.  `result.status.toUpperCase()` throws when status is undefined.
createJobSummary(result) ==
  IF "status" \notin DOMAIN result
  THEN Lit("Failed to create job summary: Cannot read properties of undefined (reading 'toUpperCase')")
  ELSE None

(***************************************************************************)
(* CacheManager: restore and save against the cache backend and the        *)
(* run-state of the action.                                                *)
(***************************************************************************)
\* cache.restoreCache(paths, primaryKey, restoreKeys): the keys of the entries
\* the backend may answer with, or None for a miss.  The backend tries the
\* keys in order; a key matches the entry stored under it, else any entry
\* whose key it is a prefix of.
RECURSIVE restoreCacheMatches(_, _)
restoreCacheMatches(store, keys) ==
  IF keys = <<>> THEN {None}
  ELSE LET byPrefix == { k \in store : StartsWith(k, Head(keys)) }
       IN  IF Head(keys) \in store THEN {Head(keys)}
           ELSE IF byPrefix # {} THEN byPrefix
           ELSE restoreCacheMatches(store, Tail(keys))

\* core.getState(name) returns process.env[`STATE_${name}`] || '': what the
\* runner handed to this process when it started.
getState(env) == env

\* core.saveState(name, value) appends to the runner's state file (or issues
\* the save-state command); the environment of the running process is left
\* as it is.
saveState(file, value) == Append(file, value)

\* The message of the error a failing backend call throws.
BackendError == Lit("Cache service responded with 503")

\* How a call of restore() or save() ends.
Returned(value, warning) ==
  [threw |-> FALSE, value |-> value, warning |-> warning, error |-> None]

Threw(error) ==
  [threw |-> TRUE, value |-> "none", warning |-> None, error |-> error]

\* restore(), after restoreCache answered cacheHit.
restoreOutcome(cacheHit) ==
  IF cacheHit # None THEN Returned("true", None) ELSE Returned("false", None)

\* Mutant: the error is thrown on to the caller.
restoreCaught_rethrow(message) == Threw(message)

\* The catch of restore().
restoreCaught(message) ==
  Returned("false", Lit("Cache restore failed: ") \o message)

\* Mutant: the error is thrown on to the caller.
saveCaught_rethrow(message) == Threw(message)

\* The catch of save().
saveCaught(message) ==
  Returned("false", Lit("Cache save failed: ") \o message)

\* Mutant: the dependency-store directory is taken to exist.
directoryExists_always(isDirectory) == TRUE

\* directoryExists(this.m2Repository): fs.stat(...).isDirectory(), false when
\* fs.stat fails.
directoryExists(isDirectory) == isDirectory

\* An entry of the log of what restore() and save() did.
StoreCall(op, arg) == [op |-> op, arg |-> arg]

VARIABLES
  \* the compatibility checks called on their own
  fnKind,      \* "java" | "maven": which compatibility check is exercised,
               \* "major": extractMajorJavaVersion is
  fnDetected,  \* the currentVersion argument
  fnRequired,  \* this.requiredJavaVersion / this.requiredMavenVersion
  fnDone,      \* the check has been called
  fnResult,    \* its return value
  fnMajor,     \* what extractMajorJavaVersion returned, None before
  \* EnvironmentManager and the host it runs on
  requiredJavaVersion,
  requiredJavaDistribution,
  requiredMavenVersion,
  hostJava,    \* what `java -version` does
  hostMaven,   \* what `mvn -version` does
  toolCache,   \* the tool cache: <<toolName, version>> entries
  PATH,        \* directories prepended by core.addPath, first first
  envVars,     \* JAVA_HOME, M2_HOME, MAVEN_HOME
  emPc,        \* where setupEnvironment is
  javaSetup,   \* what setupJava returned
  mavenSetup,  \* what setupMaven returned
  emReturned,  \* setupEnvironment returned {java, maven}
  emThrown,    \* the message of the error setupEnvironment threw, or None
  setFailed,   \* the message core.setFailed was called with, or None
  calls,       \* the calls made so far, in order
  \* CacheManager and the project tree it scans
  platform,     \* process.platform
  dirs,         \* the directories under the working directory
  poms,         \* the pom.xml of each directory
  pomFiles,     \* what findPomFiles returned, last scan
  prevPomFiles, \* and the scan before
  listed,       \* the directories the last scan passed to fs.readdir
  cacheKey,     \* what generateCacheKey returned last
  prevKey,      \* and the time before
  derivations,  \* how many times generateCacheKey ran
  restoreKeys,  \* what generateRestoreKeys returned, None before
  \* CacheManager.restore / save, the cache backend and the run-state
  cacheEnabled,  \* validatedInputs.cacheEnabled
  m2Exists,      \* ~/.m2/repository is a directory
  backend,       \* the keys of the entries the cache backend holds
  stateEnv,      \* process.env['STATE_cache-key'], None when unset
  stateFile,     \* the values core.saveState wrote, in order
  cacheHit,      \* what restoreCache answered last, None for a miss
  restoreResult, \* "true" | "false": what restore() returned last, "none" before
  saveResults,   \* what each save() returned, in order
  csThrown,      \* the message of an error restore() / save() threw, or None
  storeCalls,    \* what restore() and save() did, in order
  storeOps,      \* how many times restore() / save() were called on their own
  \* run(), the handler it executes and the outputs of the action
  inputs,          \* the inputs the runner passes to the action
  rnPc,            \* where run() is
  validatedInputs, \* what validateInputs returned
  environmentInfo, \* this.environmentInfo of the handler
  mavenCommands,   \* the command lines handed to exec.exec by the executor
  artifactPath,    \* what handleArtifacts returned
  result,          \* what execute returned
  outputs,         \* the outputs set, as <<name, value>> pairs
  runFailed,       \* the messages core.setFailed got from validateInputs and run
  runWarnings,     \* the warnings of handleArtifacts and createJobSummary
  completed,       \* run() logged that the action completed successfully
  trace            \* the steps of execute, as they start and end

fnVars == <<fnKind, fnDetected, fnRequired, fnDone, fnResult, fnMajor>>

emVars ==
  <<requiredJavaVersion, requiredJavaDistribution, requiredMavenVersion,
    hostJava, hostMaven, toolCache, PATH, envVars, emPc, javaSetup, mavenSetup,
    emReturned, emThrown, setFailed, calls>>

cmVars ==
  <<platform, dirs, poms, pomFiles, prevPomFiles, listed, cacheKey, prevKey,
    derivations, restoreKeys>>

csVars ==
  <<cacheEnabled, m2Exists, backend, stateEnv, stateFile, cacheHit,
    restoreResult, saveResults, csThrown, storeCalls, storeOps>>

rnVars ==
  <<inputs, rnPc, validatedInputs, environmentInfo, mavenCommands, artifactPath,
    result, outputs, runFailed, runWarnings, completed, trace>>

vars == <<fnVars, emVars, cmVars, csVars, rnVars>>

NoEnv == [JAVA_HOME |-> None, M2_HOME |-> None, MAVEN_HOME |-> None]

\* The compatibility checks are not being exercised.
IdleCompat ==
  /\ fnKind = "idle"
  /\ fnDetected = [text |-> None, major |-> NoMajor, parts |-> None]
  /\ fnRequired = [text |-> None, major |-> NoMajor, parts |-> None]
  /\ fnDone = FALSE
  /\ fnResult = FALSE
  /\ fnMajor = None

\* The inputs when they play no part.
DefaultInputs ==
  /\ requiredJavaVersion = ToStr(17)
  /\ requiredJavaDistribution = "temurin"
  /\ requiredMavenVersion = Dotted(<<3, 9, 5>>)

\* No EnvironmentManager is running.
IdleEnvironment ==
  /\ hostJava = NoJava("nonzero")
  /\ hostMaven = NoMaven("nonzero")
  /\ toolCache = {}
  /\ PATH = <<>>
  /\ envVars = NoEnv
  /\ emPc = "idle"
  /\ javaSetup = NoOutcome
  /\ mavenSetup = NoOutcome
  /\ emReturned = FALSE
  /\ emThrown = None
  /\ setFailed = None
  /\ calls = <<>>

\* No CacheManager is running.
IdleCache ==
  /\ platform = Linux
  /\ dirs = {<<>>}
  /\ poms = [d \in {<<>>} |-> NoFile]
  /\ pomFiles = <<>>
  /\ prevPomFiles = <<>>
  /\ listed = <<>>
  /\ cacheKey = None
  /\ prevKey = None
  /\ derivations = 0
  /\ restoreKeys = None

\* restore() and save() are not being called.
IdleStore ==
  /\ cacheEnabled = FALSE
  /\ m2Exists = FALSE
  /\ backend = {}
  /\ stateEnv = None
  /\ stateFile = <<>>
  /\ cacheHit = None
  /\ restoreResult = "none"
  /\ saveResults = <<>>
  /\ csThrown = None
  /\ storeCalls = <<>>
  /\ storeOps = 0

NoResult ==
  [buildStatus |-> None, buildTime |-> 0, operation |-> None,
   environment |-> NoEnvironmentInfo]

\* run() is not running.
IdleRun ==
  /\ inputs = NoInputs
  /\ rnPc = "idle"
  /\ validatedInputs = NoInputs
  /\ environmentInfo = NoEnvironmentInfo
  /\ mavenCommands = <<>>
  /\ artifactPath = <<>>
  /\ result = NoResult
  /\ outputs = {}
  /\ runFailed = <<>>
  /\ runWarnings = <<>>
  /\ completed = FALSE
  /\ trace = <<>>

InitCompat ==
  /\ DefaultInputs
  /\ IdleStore
  /\ IdleRun
  /\ IdleEnvironment
  /\ IdleCache
  /\ \/ /\ fnKind \in {"java", "maven"}
        /\ fnDetected \in (IF fnKind = "java" THEN JavaInputs ELSE MavenInputs)
        /\ fnRequired \in (IF fnKind = "java" THEN JavaInputs ELSE MavenInputs)
     \/ /\ fnKind = "major"
        /\ fnDetected \in LegacyJavaVersions \cup ModernJavaVersions
        /\ fnRequired = fnDetected
  /\ fnDone = FALSE
  /\ fnResult = FALSE
  /\ fnMajor = None

CallIsJavaVersionCompatible ==
  /\ fnKind = "java"
  /\ ~fnDone
  /\ fnDone' = TRUE
  /\ fnResult' = isJavaVersionCompatible(fnDetected.text, fnRequired.text)
  /\ UNCHANGED <<fnKind, fnDetected, fnRequired, fnMajor, emVars, cmVars, csVars, rnVars>>

CallIsMavenVersionCompatible ==
  /\ fnKind = "maven"
  /\ ~fnDone
  /\ fnDone' = TRUE
  /\ fnResult' = isMavenVersionCompatible(fnDetected.text, fnRequired.text)
  /\ UNCHANGED <<fnKind, fnDetected, fnRequired, fnMajor, emVars, cmVars, csVars, rnVars>>

\* extractMajorJavaVersion called on a full version string.
CallExtractMajorJavaVersion ==
  /\ fnKind = "major"
  /\ ~fnDone
  /\ fnDone' = TRUE
  /\ fnMajor' = extractMajorJavaVersion(fnDetected.text)
  /\ UNCHANGED <<fnKind, fnDetected, fnRequired, fnResult, emVars, cmVars, csVars, rnVars>>

NextCompat ==
  \/ CallIsJavaVersionCompatible
  \/ CallIsMavenVersionCompatible
  \/ CallExtractMajorJavaVersion

SpecCompat == InitCompat /\ [][NextCompat]_vars

(***************************************************************************)
(* C4: isJavaVersionCompatible(detected) is true exactly when detected     *)
(* equals the required string or the integer major of detected is greater  *)
(* than or equal to the integer major of required; for every detected      *)
(* major strictly lower than the required major it is false.               *)
(***************************************************************************)
C4_JavaCompatibleIffMajorGeq ==
  (fnDone /\ fnKind = "java") =>
    /\ fnResult =
         \/ fnDetected.text = fnRequired.text
         \/ /\ fnDetected.major # NoMajor
            /\ fnRequired.major # NoMajor
            /\ fnDetected.major >= fnRequired.major
    /\ (/\ fnDetected.major # NoMajor
        /\ fnRequired.major # NoMajor
        /\ fnDetected.major < fnRequired.major) => ~fnResult

\* A detected 9 against a required 17: lower as an integer, higher as a string.
C4_Witness ==
  /\ fnDone
  /\ fnKind = "java"
  /\ fnDetected.major = 9
  /\ fnRequired.major = 17
  /\ ~fnResult

(***************************************************************************)
(* C5: isMavenVersionCompatible(detected) is true exactly when detected is *)
(* greater than or equal to required under component-wise numeric          *)
(* comparison of the dot-separated components, left to right, with missing *)
(* trailing components treated as 0.                                       *)
(***************************************************************************)
PartAt(ps, i) == IF i <= Len(ps) THEN ps[i] ELSE 0

\* detected >= required: at the first component where they differ (if any),
\* detected is the larger.
PartsGeq(d, r) ==
  LET n == Max(Len(d), Len(r))
  IN  \/ \A i \in 1..n : PartAt(d, i) = PartAt(r, i)
      \/ \E k \in 1..n :
           /\ \A j \in 1..(k - 1) : PartAt(d, j) = PartAt(r, j)
           /\ PartAt(d, k) > PartAt(r, k)

C5_MavenCompatibleIffComponentwiseGeq ==
  (fnDone /\ fnKind = "maven" /\ fnDetected.parts # <<>> /\ fnRequired.parts # <<>>) =>
    fnResult = PartsGeq(fnDetected.parts, fnRequired.parts)

\* 3.10 against a required 3.9.5: greater by number, shorter and smaller as text.
C5_Witness ==
  /\ fnDone
  /\ fnKind = "maven"
  /\ fnDetected.parts = <<3, 10>>
  /\ fnRequired.parts = <<3, 9, 5>>
  /\ fnResult

\* 3.9 against 3.9.0: equal once the missing component counts as 0.
C5_WitnessPadding ==
  /\ fnDone
  /\ fnKind = "maven"
  /\ fnDetected.parts = <<3, 9>>
  /\ fnRequired.parts = <<3, 9, 0>>
  /\ fnResult
(***************************************************************************)
(* EnvironmentManager.setupEnvironment: setupJava, setupMaven and          *)
(* verifyEnvironment, one action per awaited step.                         *)
(***************************************************************************)
InitEnvironment ==
  /\ IdleStore
  /\ IdleRun
  /\ IdleCompat
  /\ IdleCache
  /\ requiredJavaVersion \in RequiredJavaVersions
  /\ requiredJavaDistribution \in RequiredJavaDistributions
  /\ requiredMavenVersion \in RequiredMavenVersions
  /\ hostJava \in HostJavaStates
  /\ hostMaven \in HostMavenStates
  /\ toolCache \in SUBSET
       { <<Lit("Java_") \o Lit(requiredJavaDistribution), requiredJavaVersion>>,
         <<Lit("Maven"), requiredMavenVersion>> }
  /\ PATH = <<>>
  /\ envVars = NoEnv
  /\ emPc = "setupJava"
  /\ javaSetup = NoOutcome
  /\ mavenSetup = NoOutcome
  /\ emReturned = FALSE
  /\ emThrown = None
  /\ setFailed = None
  /\ calls = <<>>

\* The catch of setupEnvironment: core.setFailed, then the error is rethrown.
SetupFails(msg, newCalls) ==
  /\ emPc' = "failed"
  /\ emThrown' = msg
  /\ setFailed' = Lit("Environment setup failed: ") \o msg
  /\ calls' = calls \o newCalls

SetupJava ==
  /\ emPc = "setupJava"
  /\ LET currentJava == getCurrentJavaVersion(hostJava, envVars)
         detection   == <<"setupJava">> \o JavaDetectionCalls(hostJava, envVars)
         branch      == setupJavaBranch(currentJava, requiredJavaVersion)
     IN  \/ /\ branch = "existing"
            /\ javaSetup' = Outcome("existing", currentJava.version,
                                    currentJava.vendor, "", currentJava.home, None)
            /\ emPc' = "setupMaven"
            /\ calls' = calls \o detection
            /\ UNCHANGED <<hostJava, toolCache, PATH, envVars, emThrown, setFailed>>
         \/ /\ branch = "warning"
            /\ javaSetup' = Outcome("warning", currentJava.version,
                                    currentJava.vendor, "", currentJava.home,
                                    MismatchWarning(currentJava.version,
                                                    requiredJavaVersion))
            /\ emPc' = "setupMaven"
            /\ calls' = calls \o detection
            /\ UNCHANGED <<hostJava, toolCache, PATH, envVars, emThrown, setFailed>>
         \/ /\ branch = "install"
            /\ \E net \in NetOutcomes, works \in BOOLEAN :
                 LET e == installJava(requiredJavaVersion, requiredJavaDistribution,
                                      net, toolCache, PATH, envVars)
                 IN  IF e.threw
                     THEN /\ SetupFails(e.error, detection \o e.calls)
                          /\ UNCHANGED <<hostJava, toolCache, PATH, envVars, javaSetup>>
                     ELSE /\ javaSetup' = Outcome("installed", requiredJavaVersion, "",
                                                  requiredJavaDistribution, e.path, None)
                          /\ toolCache' = e.toolCache
                          /\ PATH' = e.PATH
                          /\ envVars' = e.envVars
                          /\ hostJava' = InstalledJava(requiredJavaVersion,
                                                       requiredJavaDistribution, works)
                          /\ emPc' = "setupMaven"
                          /\ calls' = calls \o detection \o e.calls
                          /\ UNCHANGED <<emThrown, setFailed>>
  /\ UNCHANGED <<fnVars, cmVars, csVars, rnVars, requiredJavaVersion, requiredJavaDistribution,
                 requiredMavenVersion, hostMaven, mavenSetup, emReturned>>

SetupMaven ==
  /\ emPc = "setupMaven"
  /\ LET currentMaven == getCurrentMavenVersion(hostMaven)
         detection    == <<"setupMaven">> \o MavenDetectionCalls
         branch       == setupMavenBranch(currentMaven, requiredMavenVersion)
     IN  \/ /\ branch = "existing"
            /\ mavenSetup' = Outcome("existing", currentMaven.version, "", "",
                                     currentMaven.home, None)
            /\ emPc' = "verify"
            /\ calls' = calls \o detection
            /\ UNCHANGED <<hostMaven, toolCache, PATH, envVars, emThrown, setFailed>>
         \/ /\ branch = "warning"
            /\ mavenSetup' = Outcome("warning", currentMaven.version, "", "",
                                     currentMaven.home,
                                     MismatchWarning(currentMaven.version,
                                                     requiredMavenVersion))
            /\ emPc' = "verify"
            /\ calls' = calls \o detection
            /\ UNCHANGED <<hostMaven, toolCache, PATH, envVars, emThrown, setFailed>>
         \/ /\ branch = "install"
            /\ \E net \in NetOutcomes, works \in BOOLEAN :
                 LET e == installMaven(requiredMavenVersion, net, toolCache, PATH, envVars)
                 IN  IF e.threw
                     THEN /\ SetupFails(e.error, detection \o e.calls)
                          /\ UNCHANGED <<hostMaven, toolCache, PATH, envVars, mavenSetup>>
                     ELSE /\ mavenSetup' = Outcome("installed", requiredMavenVersion, "",
                                                   "", e.path, None)
                          /\ toolCache' = e.toolCache
                          /\ PATH' = e.PATH
                          /\ envVars' = e.envVars
                          /\ hostMaven' = InstalledMaven(requiredMavenVersion, works)
                          /\ emPc' = "verify"
                          /\ calls' = calls \o detection \o e.calls
                          /\ UNCHANGED <<emThrown, setFailed>>
  /\ UNCHANGED <<fnVars, cmVars, csVars, rnVars, requiredJavaVersion, requiredJavaDistribution,
                 requiredMavenVersion, hostJava, javaSetup, emReturned>>

VerifyEnvironment ==
  /\ emPc = "verify"
  /\ LET javaCheck  == getCurrentJavaVersion(hostJava, envVars)
         mavenCheck == getCurrentMavenVersion(hostMaven)
         err        == verifyEnvironmentError(javaCheck, mavenCheck)
         made       == <<"verifyEnvironment">> \o JavaDetectionCalls(hostJava, envVars)
                         \o (IF javaCheck.available THEN MavenDetectionCalls ELSE <<>>)
     IN  IF err # None
         THEN /\ SetupFails(err, made)
              /\ UNCHANGED emReturned
         ELSE /\ emPc' = "done"
              /\ emReturned' = TRUE
              /\ calls' = calls \o made
              /\ UNCHANGED <<emThrown, setFailed>>
  /\ UNCHANGED <<fnVars, cmVars, csVars, rnVars, requiredJavaVersion, requiredJavaDistribution,
                 requiredMavenVersion, hostJava, hostMaven, toolCache, PATH,
                 envVars, javaSetup, mavenSetup>>

NextEnvironment ==
  \/ SetupJava
  \/ SetupMaven
  \/ VerifyEnvironment

SpecEnvironment == InitEnvironment /\ [][NextEnvironment]_vars

\* The calls that reach outside the process: version queries, the tool cache,
\* downloads, and the registration of a tool.
QueryCalls ==
  {"exec java -version", "exec java -XshowSettings:properties -version",
   "exec mvn -version"}

InstallCalls ==
  {"tc.find", "tc.downloadTool", "tc.extractTar", "tc.cacheDir", "core.addPath",
   "core.exportVariable JAVA_HOME", "core.exportVariable M2_HOME",
   "core.exportVariable MAVEN_HOME"}

\* The calls made from the first occurrence of `marker` on.
CallsSince(marker) ==
  IF \A i \in 1..Len(calls) : calls[i] # marker THEN <<>>
  ELSE LET k == CHOOSE i \in 1..Len(calls) :
                  calls[i] = marker /\ \A j \in 1..(i - 1) : calls[j] # marker
       IN  SubSeq(calls, k, Len(calls))

\* The calls setupJava made (it runs first, setupMaven after it).
JavaCalls ==
  LET all == CallsSince("setupJava")
      n   == Len(all) - Len(CallsSince("setupMaven"))
  IN  SubSeq(all, 1, n)

\* The calls setupMaven made.
MavenCalls ==
  LET all == CallsSince("setupMaven")
      n   == Len(all) - Len(CallsSince("verifyEnvironment"))
  IN  SubSeq(all, 1, n)

Made(cs, set) == \E i \in 1..Len(cs) : cs[i] \in set

\* t occurs in s as a run of consecutive elements.
Contains(s, t) ==
  \E i \in 0..(Len(s) - Len(t)) : SubSeq(s, i + 1, i + Len(t)) = t

JavaUnsupported ==
  \/ ~Includes(supportedJavaVersions, requiredJavaVersion)
  \/ ~Includes(supportedJavaDistributions, requiredJavaDistribution)

MavenUnsupported == ~Includes(supportedMavenVersions, requiredMavenVersion)

JavaRan == JavaCalls # <<>> /\ emPc # "setupJava"

MavenRan == MavenCalls # <<>> /\ emPc # "setupMaven"

UnsupportedJavaError ==
  \/ StartsWith(emThrown, <<"Java installation failed: ", "Unsupported Java version: ">>)
  \/ StartsWith(emThrown,
                <<"Java installation failed: ", "Unsupported Java distribution: ">>)

UnsupportedMavenError ==
  StartsWith(emThrown, <<"Maven installation failed: ", "Unsupported Maven version: ">>)

C1_WitnessPresent ==
  /\ MavenRan
  /\ MavenUnsupported
  /\ mavenSetup.action = "existing"
  /\ emPc = "done"

DistributionOf(vendor) ==
  IF vendor = "Eclipse Temurin" THEN "temurin"
  ELSE IF vendor = "Zulu" THEN "zulu"
  ELSE vendor

NamesBoth(warning, detected, required) ==
  /\ warning # None
  /\ Contains(warning, detected)
  /\ Contains(warning, required)

C3_ReusedOnlyWhenExact ==
  /\ javaSetup.action = "existing" =>
       /\ javaSetup.version = requiredJavaVersion
       /\ DistributionOf(javaSetup.vendor) = requiredJavaDistribution
  /\ (/\ javaSetup.action \in {"existing", "warning"}
      /\ isJavaVersionCompatible(javaSetup.version, requiredJavaVersion)
      /\ javaSetup.version # requiredJavaVersion) =>
       /\ javaSetup.action = "warning"
       /\ NamesBoth(javaSetup.warning, javaSetup.version, requiredJavaVersion)
  /\ mavenSetup.action = "existing" => mavenSetup.version = requiredMavenVersion
  /\ (/\ mavenSetup.action \in {"existing", "warning"}
      /\ isMavenVersionCompatible(mavenSetup.version, requiredMavenVersion)
      /\ mavenSetup.version # requiredMavenVersion) =>
       /\ mavenSetup.action = "warning"
       /\ NamesBoth(mavenSetup.warning, mavenSetup.version, requiredMavenVersion)

(***************************************************************************)
(* C3 as amended: for a present tool, resolve returns Reused with no       *)
(* warning exactly when the detected version is compatible with the        *)
(* required one (equal or higher; the variant is not compared), and        *)
(* ReusedWithWarning exactly when it is not compatible; the warning text   *)
(* names both the detected and the required version.                       *)
(***************************************************************************)
C3_ReusedIffCompatible ==
  /\ javaSetup.action \in {"existing", "warning"} =>
       /\ javaSetup.action = "existing" <=>
            isJavaVersionCompatible(javaSetup.version, requiredJavaVersion)
       /\ javaSetup.action = "existing" => javaSetup.warning = None
       /\ javaSetup.action = "warning" =>
            NamesBoth(javaSetup.warning, javaSetup.version, requiredJavaVersion)
  /\ mavenSetup.action \in {"existing", "warning"} =>
       /\ mavenSetup.action = "existing" <=>
            isMavenVersionCompatible(mavenSetup.version, requiredMavenVersion)
       /\ mavenSetup.action = "existing" => mavenSetup.warning = None
       /\ mavenSetup.action = "warning" =>
            NamesBoth(mavenSetup.warning, mavenSetup.version, requiredMavenVersion)

\* Java 21 found where 17 is required: reused, and without a warning.
C3_Witness ==
  /\ javaSetup.action = "existing"
  /\ javaSetup.version = ToStr(21)
  /\ requiredJavaVersion = ToStr(17)
  /\ javaSetup.warning = None

(***************************************************************************)
(* C6: after both tools have been resolved, verifyEnvironment re-runs      *)
(* detection for each; if either tool is still undetectable,               *)
(* setupEnvironment fails with an error that names that tool and returns   *)
(* no outcome, and it succeeds only if both tools are detected.            *)
(***************************************************************************)
JavaNotVerified ==
  <<"Environment verification failed: ",
    "Java verification failed - not available after setup">>

MavenNotVerified ==
  <<"Environment verification failed: ",
    "Maven verification failed - not available after setup">>

VerifyRan == emPc \in {"done", "failed"} /\ CallsSince("verifyEnvironment") # <<>>

C6_VerificationNamesMissingTool ==
  VerifyRan =>
    /\ Made(CallsSince("verifyEnvironment"), {"exec java -version"})
    /\ hostJava.status # "ok" =>
         /\ emPc = "failed"
         /\ ~emReturned
         /\ emThrown = JavaNotVerified
    /\ (hostJava.status = "ok" /\ hostMaven.status # "ok") =>
         /\ Made(CallsSince("verifyEnvironment"), {"exec mvn -version"})
         /\ emPc = "failed"
         /\ ~emReturned
         /\ emThrown = MavenNotVerified
    /\ emReturned <=> (hostJava.status = "ok" /\ hostMaven.status = "ok")
    /\ emReturned =>
         /\ emPc = "done"
         /\ emThrown = None
         /\ Made(CallsSince("verifyEnvironment"), {"exec mvn -version"})

\* Maven was installed but still does not answer: the failure names Maven.
C6_WitnessMavenMissing ==
  /\ VerifyRan
  /\ mavenSetup.action = "installed"
  /\ hostJava.status = "ok"
  /\ hostMaven.status # "ok"
  /\ emThrown = MavenNotVerified

\* Both tools answer: setupEnvironment returns.
C6_WitnessVerified ==
  /\ VerifyRan
  /\ javaSetup.action = "installed"
  /\ emReturned
(***************************************************************************)
(* CacheManager: key derivations over one project tree.                    *)
(***************************************************************************)
\* The pom.xml states drawn for the working directory and the modules a, b.
RootPoms == {NoFile, Unreadable, <<"A">>, <<"B">>}

ModuleAPoms == {NoFile, <<"A">>, <<"A", "B">>}

ModuleBPoms == {NoFile, <<"A">>, <<"B">>}

\* A tree: the working directory, a chain of n nested modules under a, and
\* optionally the directories b, .git (with .git/a inside) and target (and
\* a/target when a exists).  The deepest directory of the chain and every
\* directory in or under .git or target hold a pom.xml.  Trees with a chain
\* of two or more levels are drawn without b, .git and target.
TreeDirs(n, withB, withGit, withTarget) ==
  {<<>>} \cup Chain(n)
    \cup (IF withB THEN {<<DirB>>} ELSE {})
    \cup (IF withGit THEN {<<DotGit>>, <<DotGit, DirA>>} ELSE {})
    \cup (IF withTarget THEN {<<Target>>} ELSE {})
    \cup (IF withTarget /\ n >= 1 THEN {<<DirA, Target>>} ELSE {})

TreePoms(ds, n, rootPom, aPom, bPom) ==
  [d \in ds |->
     IF d = <<>> THEN rootPom
     ELSE IF d = <<DirA>> THEN aPom
     ELSE IF d = <<DirB>> THEN bPom
     ELSE IF \E i \in 1..Len(d) : d[i] \in {DotGit, Target} THEN <<"A">>
     ELSE IF Len(d) = n THEN <<"A">>
     ELSE NoFile]

InitCache ==
  /\ IdleCompat
  /\ IdleStore
  /\ IdleRun
  /\ IdleEnvironment
  /\ requiredJavaVersion \in {ToStr(17), ToStr(21)}
  /\ requiredJavaDistribution = "temurin"
  /\ requiredMavenVersion = Dotted(<<3, 9, 5>>)
  /\ platform \in Platforms
  /\ \E n \in 0..MaxChain, withB, withGit, withTarget \in BOOLEAN :
       \E rootPom \in RootPoms, aPom \in ModuleAPoms, bPom \in ModuleBPoms :
         /\ n <= 1 \/ (~withB /\ ~withGit /\ ~withTarget /\ rootPom = <<"A">>)
         /\ dirs = TreeDirs(n, withB, withGit, withTarget)
         /\ poms = TreePoms(dirs, n, rootPom, aPom, bPom)
  /\ pomFiles = <<>>
  /\ prevPomFiles = <<>>
  /\ listed = <<>>
  /\ cacheKey = None
  /\ prevKey = None
  /\ derivations = 0
  /\ restoreKeys = None

\* generateCacheKey: scan, read, hash.  The file system lists each directory
\* in an order of its own choosing.
\* What a scan of the tree may find and list, over the orders fs.readdir may
\* list the entries in.
Scans ==
  { <<findPomFiles(dirs, poms, order), readdirCalls(dirs, order, <<>>, 0)>> :
      order \in ListingOrders(dirs) }

\* One call of generateCacheKey whose scan went as in scan.
ScanAndDerive(scan) ==
  /\ pomFiles' = scan[1]
  /\ listed' = scan[2]
  /\ cacheKey' = cacheKeyOf(poms, scan[1], platform, requiredJavaVersion,
                            requiredMavenVersion)
  /\ prevPomFiles' = pomFiles
  /\ prevKey' = cacheKey
  /\ derivations' = derivations + 1

GenerateCacheKey ==
  /\ derivations < MaxDerivations
  /\ \E scan \in Scans : ScanAndDerive(scan)
  /\ UNCHANGED <<fnVars, emVars, csVars, rnVars, platform, dirs, poms, restoreKeys>>

GenerateRestoreKeys ==
  /\ restoreKeys = None
  /\ restoreKeys' = generateRestoreKeys(platform, requiredJavaVersion,
                                        requiredMavenVersion)
  /\ UNCHANGED <<fnVars, emVars, csVars, rnVars, platform, dirs, poms, pomFiles,
                 prevPomFiles, listed, cacheKey, prevKey, derivations>>

NextCache ==
  \/ GenerateCacheKey
  \/ GenerateRestoreKeys

SpecCache == InitCache /\ [][NextCache]_vars

\* Scenario A: a root-only manifest "A" on linux, Java 17, Maven 3.9.5.
ScenarioA ==
  /\ derivations >= 1
  /\ platform = Linux
  /\ requiredJavaVersion = ToStr(17)
  /\ requiredMavenVersion = Dotted(<<3, 9, 5>>)
  /\ dirs = {<<>>}
  /\ poms[<<>>] = <<"A">>

(***************************************************************************)
(* C7 as stated: in scenario A generateCacheKey returns the fixed prefix   *)
(* followed by the hex SHA-256 of the plain concatenation                  *)
(* "linux" + "17" + "3.9.5" + "A", with nothing inserted between the       *)
(* parts.                                                                  *)
(***************************************************************************)
C7_KeyHashesPlainConcatenation ==
  ScenarioA =>
    LET digest == sha256hex(<<"l", "i", "n", "u", "x", "1", "7",
                              "3", ".", "9", ".", "5", "A">>)
    IN  cacheKey \in {MavenDeps \o digest, MavenDeps \o Dash \o digest}

(***************************************************************************)
(* C7 as amended: in scenario A generateCacheKey returns "maven-deps-"     *)
(* followed by the hex SHA-256 of "linux-java17-maven3.9.5-A": the hashed  *)
(* input is OS, Java version, Maven version and manifest contents in that  *)
(* order, with the literals "-java", "-maven" and "-" between them.        *)
(***************************************************************************)
C7_KeyHashesLabelledConcatenation ==
  ScenarioA =>
    cacheKey =
      <<"m", "a", "v", "e", "n", "-", "d", "e", "p", "s", "-">>
        \o sha256hex(<<"l", "i", "n", "u", "x", "-", "j", "a", "v", "a", "1", "7",
                       "-", "m", "a", "v", "e", "n", "3", ".", "9", ".", "5",
                       "-", "A">>)

C7_Witness == ScenarioA /\ pomFiles = << <<>> >> /\ cacheKey # None

(***************************************************************************)
(* C8: with the digest injective, changing the content of any single       *)
(* manifest of the scanned project (all else equal), or changing the OS,   *)
(* the Java version or the Maven version, always changes the key returned  *)
(* by generateCacheKey.                                                    *)
(***************************************************************************)
\* The manifests of the last scan whose content was read.
ReadManifests ==
  { pomFiles[i] : i \in { j \in 1..Len(pomFiles) : poms[pomFiles[j]] # Unreadable } }

OtherJavaVersions == {ToStr(1), ToStr(8), ToStr(17), ToStr(21)}

OtherMavenVersions == {Dotted(<<3, 9, 5>>), Dotted(<<3, 9>>), Dotted(<<3, 8, 1>>)}

C9_RepeatedScanSameKey ==
  derivations >= 2 => cacheKey = prevKey

(***************************************************************************)
(* C10: generateRestoreKeys always returns exactly 4 keys in which every   *)
(* key is a proper string prefix of the key before it                      *)
(* (prefix-os-runtime-buildtool, prefix-os-runtime, prefix-os, prefix) and *)
(* the last key is the bare prefix 'maven-deps'.                           *)
(***************************************************************************)
ProperPrefix(p, s) == Len(p) < Len(s) /\ SubSeq(s, 1, Len(p)) = p

\* What follows the prefix p in s.
After(p, s) == SubSeq(s, Len(p) + 1, Len(s))

C10_RestoreKeysArePrefixChain ==
  restoreKeys # None =>
    /\ Len(restoreKeys) = 4
    /\ \A i \in 1..3 : ProperPrefix(restoreKeys[i + 1], restoreKeys[i])
    /\ restoreKeys[4] = <<"m", "a", "v", "e", "n", "-", "d", "e", "p", "s">>
    /\ After(restoreKeys[4], restoreKeys[3]) = <<"-">> \o platform
    /\ Contains(After(restoreKeys[3], restoreKeys[2]), requiredJavaVersion)
    /\ Contains(After(restoreKeys[2], restoreKeys[1]), requiredMavenVersion)

C10_Witness ==
  /\ restoreKeys # None
  /\ platform = Darwin
  /\ requiredJavaVersion = ToStr(21)
  /\ Len(restoreKeys) = 4

\* d is, or lies below, a hidden directory or a directory named target.
InHiddenOrTarget(d) ==
  \E i \in 1..Len(d) : StartsWith(d[i], <<".">>) \/ d[i] = Target

(***************************************************************************)
(* C14 as stated: every manifest returned by findPomFiles lies in a        *)
(* directory at most 5 levels below the working directory, for any         *)
(* directory tree.                                                         *)
(***************************************************************************)
C14_ManifestsWithinFiveLevels ==
  derivations >= 1 => \A i \in 1..Len(pomFiles) : Len(pomFiles[i]) <= 5

(***************************************************************************)
(* C14 as amended: the scan never lists a directory more than 5 levels     *)
(* below the working directory, and every manifest returned by             *)
(* findPomFiles lies in a directory at most 6 levels below it: the         *)
(* pom.xml of each sub-directory of a listed directory is looked up, so a  *)
(* manifest 6 levels down is returned and one 7 levels down is not.        *)
(***************************************************************************)
C14_ListingWithinFiveLevels ==
  derivations >= 1 =>
    /\ \A i \in 1..Len(listed) : Len(listed[i]) <= 5
    /\ \A i \in 1..Len(pomFiles) : Len(pomFiles[i]) <= 6
    /\ \A d \in dirs :
         (Len(d) = 6 /\ ~InHiddenOrTarget(d) /\ fileExists(poms, d))
           => \E i \in 1..Len(pomFiles) : pomFiles[i] = d

\* The scan of a tree with a manifest 6 levels down, which is returned.
C14_Witness ==
  /\ derivations >= 1
  /\ \E i \in 1..Len(pomFiles) : Len(pomFiles[i]) = 6
  /\ \E i \in 1..Len(listed) : Len(listed[i]) = 5

(***************************************************************************)
(* C15: no manifest returned by findPomFiles lies inside or below a        *)
(* directory whose name starts with '.' or equals 'target', and no such    *)
(* directory is ever listed by the scan.                                   *)
(***************************************************************************)
C15_HiddenAndTargetNeverEntered ==
  derivations >= 1 =>
    /\ \A i \in 1..Len(pomFiles) : ~InHiddenOrTarget(pomFiles[i])
    /\ \A i \in 1..Len(listed) : ~InHiddenOrTarget(listed[i])

\* The scan of a tree that has .git, .git/a, target and a/target, each with
\* a pom.xml, next to the module a.
C15_Witness ==
  /\ derivations >= 1
  /\ {<<DotGit>>, <<DotGit, DirA>>, <<Target>>, <<DirA, Target>>} \subseteq dirs
  /\ \A d \in {<<DotGit>>, <<DotGit, DirA>>, <<Target>>, <<DirA, Target>>} :
       fileExists(poms, d)
  /\ \E i \in 1..Len(pomFiles) : pomFiles[i] = <<DirA>>
  /\ \E i \in 1..Len(listed) : listed[i] = <<DirA>>

(***************************************************************************)
(* CacheManager.restore and CacheManager.save, called on their own against *)
(* a cache backend that may hold entries and may fail.                     *)
(***************************************************************************)
\* The key of an entry saved for another project.
ForeignKey == MavenDeps \o Dash \o sha256hex(<<"X">>)

\* The keys generateCacheKey may derive for a tree.
KeysOfTree(ds, ps, os, javaVersion, mavenVersion) ==
  { cacheKeyOf(ps, findPomFiles(ds, ps, order), os, javaVersion, mavenVersion) :
      order \in ListingOrders(ds) }

scanVars == <<pomFiles, prevPomFiles, listed, cacheKey, prevKey, derivations>>

\* The log of a call of restore() or save() that ended as in end after
\* doing what made lists.
StoreLog(name, made, end) ==
  <<StoreCall(name, None)>> \o made
    \o (IF end.warning # None THEN <<StoreCall("warning", end.warning)>> ELSE <<>>)
    \o (IF end.threw THEN <<StoreCall(name \o " throws", end.error)>>
        ELSE <<StoreCall(name \o " returns", Lit(end.value))>>)

\* restore(), from its first line to its return.
RestoreBody ==
  /\ IF ~cacheEnabled
     THEN /\ restoreResult' = "false"
          /\ cacheHit' = None
          /\ csThrown' = None
          /\ storeCalls' = storeCalls \o StoreLog("restore", <<>>, Returned("false", None))
          /\ UNCHANGED <<scanVars, restoreKeys>>
     ELSE \E scan \in Scans :
            LET key   == cacheKeyOf(poms, scan[1], platform, requiredJavaVersion,
                                    requiredMavenVersion)
                rkeys == generateRestoreKeys(platform, requiredJavaVersion,
                                             requiredMavenVersion)
            IN  \E answer \in
                     { [threw |-> FALSE, hit |-> h] :
                         h \in restoreCacheMatches(backend, <<key>> \o rkeys) }
                       \cup { [threw |-> TRUE, hit |-> None] } :
                  LET end == IF answer.threw THEN restoreCaught(BackendError)
                             ELSE restoreOutcome(answer.hit)
                  IN  /\ ScanAndDerive(scan)
                      /\ restoreKeys' = rkeys
                      /\ cacheHit' = answer.hit
                      /\ restoreResult' = end.value
                      /\ csThrown' = end.error
                      /\ storeCalls' = storeCalls
                           \o StoreLog("restore",
                                       <<StoreCall("restoreCache", key)>>
                                         \o (IF answer.threw
                                             THEN <<StoreCall("restoreCache throws",
                                                              BackendError)>>
                                             ELSE <<>>),
                                       end)
  /\ UNCHANGED <<platform, dirs, poms, cacheEnabled, m2Exists, backend, stateEnv,
                 stateFile, saveResults>>

\* The end of a call of save().
SaveEnds(made, end) ==
  /\ saveResults' = IF end.threw THEN saveResults ELSE Append(saveResults, end.value)
  /\ csThrown' = end.error
  /\ storeCalls' = storeCalls \o StoreLog("save", made, end)

\* save(), from its first line to its return.
SaveBody ==
  /\ IF ~cacheEnabled
     THEN /\ SaveEnds(<<>>, Returned("false", None))
          /\ UNCHANGED <<scanVars, backend, stateFile>>
     ELSE IF ~directoryExists(m2Exists)
     THEN /\ SaveEnds(<<StoreCall("directoryExists", Lit("false"))>>,
                      Returned("false",
                               Lit("Maven repository directory not found, skipping cache save")))
          /\ UNCHANGED <<scanVars, backend, stateFile>>
     ELSE \E scan \in Scans :
            LET key              == cacheKeyOf(poms, scan[1], platform,
                                               requiredJavaVersion,
                                               requiredMavenVersion)
                existingCacheKey == getState(stateEnv)
                made             == <<StoreCall("directoryExists", Lit("true")),
                                      StoreCall("getState", existingCacheKey)>>
            IN  /\ ScanAndDerive(scan)
                /\ IF existingCacheKey = key
                   THEN /\ SaveEnds(made, Returned("false", None))
                        /\ UNCHANGED <<backend, stateFile>>
                   ELSE \E saved \in BOOLEAN :
                          IF saved
                          THEN /\ backend' = backend \cup {key}
                               /\ stateFile' = saveState(stateFile, key)
                               /\ SaveEnds(made \o <<StoreCall("saveCache", key),
                                                     StoreCall("saveState", key)>>,
                                           Returned("true", None))
                          ELSE /\ SaveEnds(made \o <<StoreCall("saveCache", key),
                                                     StoreCall("saveCache throws",
                                                               BackendError)>>,
                                           saveCaught(BackendError))
                               /\ UNCHANGED <<backend, stateFile>>
  /\ UNCHANGED <<platform, dirs, poms, restoreKeys, cacheEnabled, m2Exists,
                 stateEnv, cacheHit, restoreResult>>

InitStore ==
  /\ IdleCompat
  /\ IdleRun
  /\ IdleEnvironment
  /\ DefaultInputs
  /\ platform = Linux
  /\ \E n \in 0..1, withB \in BOOLEAN :
       /\ dirs = TreeDirs(n, withB, FALSE, FALSE)
       /\ poms = TreePoms(dirs, n, <<"A">>, <<"A">>, <<"B">>)
  /\ pomFiles = <<>>
  /\ prevPomFiles = <<>>
  /\ listed = <<>>
  /\ cacheKey = None
  /\ prevKey = None
  /\ derivations = 0
  /\ restoreKeys = None
  /\ cacheEnabled \in BOOLEAN
  /\ m2Exists \in BOOLEAN
  /\ LET known == KeysOfTree(dirs, poms, platform, requiredJavaVersion,
                             requiredMavenVersion)
     IN  /\ backend \in SUBSET (known \cup {ForeignKey})
         /\ stateEnv \in {None} \cup known
  /\ stateFile = <<>>
  /\ cacheHit = None
  /\ restoreResult = "none"
  /\ saveResults = <<>>
  /\ csThrown = None
  /\ storeCalls = <<>>
  /\ storeOps = 0

Restore ==
  /\ storeOps < MaxStoreCalls
  /\ RestoreBody
  /\ storeOps' = storeOps + 1
  /\ UNCHANGED <<fnVars, emVars, rnVars>>

Save ==
  /\ storeOps < MaxStoreCalls
  /\ SaveBody
  /\ storeOps' = storeOps + 1
  /\ UNCHANGED <<fnVars, emVars, rnVars>>

NextStore ==
  \/ Restore
  \/ Save

SpecStore == InitStore /\ [][NextStore]_vars

\* The entries of the log made by op.
CallsOf(op) == { i \in 1..Len(storeCalls) : storeCalls[i].op = op }

\* The last call of restore() / save() was a restore() that returned.
RestoreReturnedLast ==
  storeCalls # <<>> /\ storeCalls[Len(storeCalls)].op = "restore returns"

(***************************************************************************)
(* C11: restore() reports a match on a fallback key distinguishably from a *)
(* match on the exact primary key: its result for a backend match whose    *)
(* matched key differs from the primary key is different from its result   *)
(* for an exact match.                                                     *)
(***************************************************************************)
C11_FallbackMatchReportedDistinctly ==
  (RestoreReturnedLast /\ cacheHit # None /\ cacheHit # cacheKey)
    => restoreResult # restoreOutcome(cacheKey).value

(***************************************************************************)
(* C12: calling save() twice consecutively in one invocation with an       *)
(* unchanged cache key results in exactly one backend saveCache call: the  *)
(* first call saves, records the key in run-state and returns true, and    *)
(* the second reads the recorded key, makes no backend call and returns    *)
(* false.                                                                  *)
(***************************************************************************)
\* save() was called twice in a row, derived the same key both times, and
\* the first call saved and returned true.
SavedThenSavedAgain ==
  /\ Len(saveResults) = 2
  /\ CallsOf("restore") = {}
  /\ cacheKey = prevKey
  /\ saveResults[1] = "true"

C12_SecondSaveSkipsBackend ==
  SavedThenSavedAgain =>
    /\ Cardinality(CallsOf("saveCache")) = 1
    /\ stateFile = <<cacheKey>>
    /\ saveResults[2] = "false"

(***************************************************************************)
(* run(): validateInputs, processEvent, MavenActionHandler.execute (set up *)
(* the environment, restore the cache, run the Maven operation, handle     *)
(* the artifacts, save the cache), setOutputs, createJobSummary.           *)
(***************************************************************************)
\* handleArtifacts: what it returns when the collected artifacts are
\* collected and, with failed, when collecting or uploading throws.
handleArtifacts(collected, failed) ==
  IF failed
  THEN [value |-> <<>>,
        warning |-> Lit("Artifact management failed: upload rejected")]
  ELSE [value |-> collected, warning |-> None]

\* The error of processEvent on a payload it cannot read.
EventError == Lit("Cannot read properties of undefined (reading 'number')")

emRest ==
  <<hostJava, hostMaven, toolCache, PATH, envVars, emPc, javaSetup, mavenSetup,
    emReturned, emThrown, setFailed, calls>>

csRest ==
  <<m2Exists, backend, stateEnv, stateFile, cacheHit, restoreResult, saveResults,
    csThrown, storeCalls, storeOps>>

\* The catch of run().
RunFails(messages) ==
  /\ runFailed' = runFailed \o messages
  /\ rnPc' = "failed"

ValidateInputs ==
  /\ rnPc = "validate"
  /\ LET v == validateInputs(inputs)
     IN  IF v.threw
         THEN /\ RunFails(<< Lit("Input validation error: ") \o v.error,
                             Lit("Action failed: ") \o v.error >>)
              /\ UNCHANGED <<validatedInputs, requiredJavaVersion,
                             requiredJavaDistribution, requiredMavenVersion,
                             cacheEnabled>>
         ELSE /\ validatedInputs' = v.value
              /\ requiredJavaVersion' = v.value.javaVersion
              /\ requiredJavaDistribution' = v.value.javaDistribution
              /\ requiredMavenVersion' = v.value.mavenVersion
              /\ cacheEnabled' = v.value.cacheEnabled
              /\ rnPc' = "processEvent"
              /\ UNCHANGED runFailed
  /\ UNCHANGED <<fnVars, emRest, cmVars, csRest, inputs, environmentInfo,
                 mavenCommands, artifactPath, result, outputs, runWarnings,
                 completed, trace>>

\* processEvent, and the first step of execute: the call of
\* environmentManager.setupEnvironment.
ProcessEvent ==
  /\ rnPc = "processEvent"
  /\ \E readable \in BOOLEAN :
       IF readable
       THEN /\ rnPc' = "setupEnvironment"
            /\ emPc' = "setupJava"
            /\ trace' = trace \o <<"setupEnvironment">>
            /\ UNCHANGED runFailed
       ELSE /\ RunFails(<< Lit("Action failed: ") \o EventError >>)
            /\ UNCHANGED <<emPc, trace>>
  /\ UNCHANGED <<fnVars, cmVars, csVars, requiredJavaVersion,
                 requiredJavaDistribution, requiredMavenVersion, hostJava,
                 hostMaven, toolCache, PATH, envVars, javaSetup, mavenSetup,
                 emReturned, emThrown, setFailed, calls, inputs, validatedInputs,
                 environmentInfo, mavenCommands, artifactPath, result, outputs,
                 runWarnings, completed>>

\* A step of execute returned: execute goes on to the next step, or returns
\* its result when there is none.
GoesOn(step, artifacts, info) ==
  LET next == stepAfter(step, validatedInputs.cacheEnabled)
  IN  IF next = "return"
      THEN /\ result' = executeResult(None, validatedInputs.operation, artifacts, info)
           /\ rnPc' = "setOutputs"
           /\ trace' = trace \o <<step \o " returned", "return">>
      ELSE /\ rnPc' = next
           /\ trace' = trace \o <<step \o " returned", next>>
           /\ UNCHANGED result

\* A step of execute threw: the catch of execute returns its result.
Catches(step, error, info) ==
  /\ result' = executeResult(error, validatedInputs.operation, artifactPath, info)
  /\ rnPc' = "setOutputs"
  /\ trace' = trace \o <<step \o " threw", "return">>

\* setupEnvironment of the handler, once environmentManager.setupEnvironment
\* has returned or thrown.
SetupEnvironmentEnds ==
  /\ rnPc = "setupEnvironment"
  /\ emPc \in {"done", "failed"}
  /\ IF emPc = "done"
     THEN /\ environmentInfo' = <<getEnvironmentSummary(javaSetup, mavenSetup)>>
          /\ GoesOn("setupEnvironment", artifactPath, environmentInfo')
     ELSE /\ Catches("setupEnvironment", emThrown, environmentInfo)
          /\ UNCHANGED environmentInfo
  /\ UNCHANGED <<fnVars, emVars, cmVars, csVars, inputs, validatedInputs,
                 mavenCommands, artifactPath, outputs, runFailed, runWarnings,
                 completed>>

RunRestore ==
  /\ rnPc = "restore"
  /\ RestoreBody
  /\ IF csThrown' # None
     THEN Catches("restore", csThrown', environmentInfo)
     ELSE GoesOn("restore", artifactPath, environmentInfo)
  /\ UNCHANGED <<fnVars, emVars, storeOps, inputs, validatedInputs,
                 environmentInfo, mavenCommands, artifactPath, outputs, runFailed,
                 runWarnings, completed>>

\* executeMavenOperation: the switch and, for a phase, mvn run to its exit.
\* The build may create the local repository.
RunMaven ==
  /\ rnPc = "maven"
  /\ LET op == executeMavenOperation(validatedInputs.operation)
     IN  IF op.threw
         THEN /\ Catches("maven", op.error, environmentInfo)
              /\ UNCHANGED <<mavenCommands, m2Exists>>
         ELSE \E exitCode \in {0, 1}, populated \in BOOLEAN :
                /\ mavenCommands' =
                     Append(mavenCommands,
                            executeMavenCommand(op.phase, validatedInputs.settingsFile,
                                                validatedInputs.mavenArgs))
                /\ m2Exists' = (m2Exists \/ populated)
                /\ IF exitCode = 0
                   THEN GoesOn("maven", artifactPath, environmentInfo)
                   ELSE Catches("maven", MavenFailed(exitCode), environmentInfo)
  /\ UNCHANGED <<fnVars, emVars, cmVars, cacheEnabled, backend, stateEnv,
                 stateFile, cacheHit, restoreResult, saveResults, csThrown,
                 storeCalls, storeOps, inputs, validatedInputs, environmentInfo,
                 artifactPath, outputs, runFailed, runWarnings, completed>>

RunArtifacts ==
  /\ rnPc = "artifacts"
  /\ \E collected \in { <<>>, << <<"t", "a", "r", "g", "e", "t", "/", "a", "p", "p", ".", "j", "a", "r">> >> }, failed \in BOOLEAN :
       LET handled == handleArtifacts(collected, failed)
       IN  /\ artifactPath' = handled.value
           /\ runWarnings' = runWarnings
                \o (IF handled.warning # None THEN <<handled.warning>> ELSE <<>>)
           /\ GoesOn("artifacts", handled.value, environmentInfo)
  /\ UNCHANGED <<fnVars, emVars, cmVars, csVars, inputs, validatedInputs,
                 environmentInfo, mavenCommands, outputs, runFailed, completed>>

RunSave ==
  /\ rnPc = "save"
  /\ SaveBody
  /\ IF csThrown' # None
     THEN Catches("save", csThrown', environmentInfo)
     ELSE GoesOn("save", artifactPath, environmentInfo)
  /\ UNCHANGED <<fnVars, emVars, storeOps, inputs, validatedInputs,
                 environmentInfo, mavenCommands, artifactPath, outputs, runFailed,
                 runWarnings, completed>>

SetOutputs ==
  /\ rnPc = "setOutputs"
  /\ outputs' = setOutputs(result)
  /\ rnPc' = "summary"
  /\ UNCHANGED <<fnVars, emVars, cmVars, csVars, inputs, validatedInputs,
                 environmentInfo, mavenCommands, artifactPath, result, runFailed,
                 runWarnings, completed, trace>>

\* createJobSummary and the last line of the try of run().
CreateJobSummary ==
  /\ rnPc = "summary"
  /\ runWarnings' = runWarnings
       \o (IF createJobSummary(result) # None
           THEN <<createJobSummary(result)>> ELSE <<>>)
  /\ completed' = TRUE
  /\ rnPc' = "done"
  /\ UNCHANGED <<fnVars, emVars, cmVars, csVars, inputs, validatedInputs,
                 environmentInfo, mavenCommands, artifactPath, result, outputs,
                 runFailed, trace>>

\* The inputs of a plain run: package, everything else left to its default,
\* the cache enabled.
PlainInputs ==
  [operation |-> OpPackage, javaVersion |-> <<>>, javaDistribution |-> "",
   mavenVersion |-> <<>>, workingDirectory |-> <<>>, settingsFile |-> <<>>,
   mavenArgs |-> <<>>, cacheEnabled |-> <<"t", "r", "u", "e">>]

\* String.prototype.repeat for a one-character string.
Repeat(c, n) == [i \in 1..n |-> c]

OperationInputs ==
  { validOperations[i] : i \in 1..Len(validOperations) }
    \cup { <<"P", "A", "C", "K", "A", "G", "E">>, <<"P", "a", "c", "k", "a", "g", "e">>, <<"C", "L", "E", "A", "N">>, <<" ", "t", "e", "s", "t", " ">>, <<>>, <<" ", " ">>, <<"b", "u", "i", "l", "d">>,
           <<"t", "e", "s", "t", ",", "p", "a", "c", "k", "a", "g", "e">> }

CacheEnabledInputs == { <<"t", "r", "u", "e">>, <<"f", "a", "l", "s", "e">>, <<"T", "R", "U", "E">>, <<"t", "R", "u", "E">>, <<"y", "e", "s">>, <<>> }

\* Inputs that differ from the plain ones in the operation and in at most
\* one other input.
InputChoices ==
  { [PlainInputs EXCEPT !.operation = o, !.cacheEnabled = c] :
      o \in OperationInputs, c \in CacheEnabledInputs }
  \cup { [PlainInputs EXCEPT !.operation = o, !.javaVersion = v] :
           o \in {OpPackage, <<"b", "u", "i", "l", "d">>}, v \in {ToStr(17), ToStr(9)} }
  \cup { [PlainInputs EXCEPT !.operation = o, !.javaDistribution = v] :
           o \in {OpPackage, <<"b", "u", "i", "l", "d">>}, v \in {"oracle", "temurin"} }
  \cup { [PlainInputs EXCEPT !.operation = o, !.mavenVersion = v] :
           o \in {OpPackage, <<"b", "u", "i", "l", "d">>},
           v \in {Dotted(<<2, 0, 0>>), Dotted(<<3, 9>>)} }
  \cup { [PlainInputs EXCEPT !.operation = o, !.workingDirectory = v] :
           o \in {OpPackage, <<"b", "u", "i", "l", "d">>},
           v \in { <<".", ".", "/", "u", "p">>, <<"/", "e", "t", "c">>, <<"s", "u", "b">>,
                   <<"a", "<", "b">>, Repeat("d", maxPathLength + 1) } }
  \cup { [PlainInputs EXCEPT !.operation = o, !.settingsFile = v] :
           o \in {OpPackage, <<"b", "u", "i", "l", "d">>}, v \in { <<"s", ".", "x", "m", "l">>, <<"s", ".", "t", "x", "t">> } }
  \cup { [PlainInputs EXCEPT !.operation = o, !.mavenArgs = v] :
           o \in {OpPackage, <<"b", "u", "i", "l", "d">>},
           v \in { <<"-", "D", "s", "k", "i", "p", "T", "e", "s", "t", "s", " ", "-", "U">>, <<"-", "X", " ", "-", "q">>, <<"-", "U", ";", " ", "i", "d">>,
                   Repeat("a", maxStringLength + 1) } }

\* The inputs the hosts, trees and backends below are combined with.
PipelineInputs ==
  { [PlainInputs EXCEPT !.operation = o, !.cacheEnabled = c] :
      o \in {OpPackage, OpClean, <<"P", "A", "C", "K", "A", "G", "E">>}, c \in { <<"t", "r", "u", "e">>, <<"f", "a", "l", "s", "e">> } }

PlainHostJava ==
  [status |-> "ok", fullVersion |-> Dotted(<<17, 0, 2>>), vendor |-> "Eclipse Temurin",
   home |-> Lit("/opt/java")]

PlainHostMaven ==
  [status |-> "ok", version |-> Dotted(<<3, 9, 5>>), home |-> Lit("/opt/maven")]

InitRun ==
  /\ IdleCompat
  /\ DefaultInputs
  /\ inputs \in InputChoices
  /\ hostJava \in {PlainHostJava, NoJava("nonzero")}
  /\ hostMaven \in {PlainHostMaven, NoMaven("nonzero")}
  /\ toolCache \in
       { {}, { <<Lit("Java_") \o Lit("corretto"), ToStr(17)>>,
               <<Lit("Maven"), Dotted(<<3, 9, 5>>)>> } }
  /\ PATH = <<>>
  /\ envVars = NoEnv
  /\ emPc = "idle"
  /\ javaSetup = NoOutcome
  /\ mavenSetup = NoOutcome
  /\ emReturned = FALSE
  /\ emThrown = None
  /\ setFailed = None
  /\ calls = <<>>
  /\ platform = Linux
  /\ \E withB \in BOOLEAN :
       /\ dirs = TreeDirs(IF withB THEN 1 ELSE 0, withB, FALSE, FALSE)
       /\ poms = TreePoms(dirs, IF withB THEN 1 ELSE 0, <<"A">>, <<"A">>, <<"B">>)
  /\ pomFiles = <<>>
  /\ prevPomFiles = <<>>
  /\ listed = <<>>
  /\ cacheKey = None
  /\ prevKey = None
  /\ derivations = 0
  /\ restoreKeys = None
  /\ cacheEnabled = FALSE
  /\ m2Exists \in BOOLEAN
  /\ backend \in
       { {}, {ForeignKey},
         KeysOfTree(dirs, poms, platform, ToStr(17), Dotted(<<3, 9, 5>>)) }
  /\ stateEnv = None
  /\ stateFile = <<>>
  /\ cacheHit = None
  /\ restoreResult = "none"
  /\ saveResults = <<>>
  /\ csThrown = None
  /\ storeCalls = <<>>
  /\ storeOps = 0
  /\ inputs \in PipelineInputs
       \/ /\ hostJava = PlainHostJava
          /\ hostMaven = PlainHostMaven
          /\ toolCache = {}
          /\ dirs = {<<>>}
          /\ m2Exists
          /\ backend = {}
  /\ rnPc = "validate"
  /\ validatedInputs = NoInputs
  /\ environmentInfo = NoEnvironmentInfo
  /\ mavenCommands = <<>>
  /\ artifactPath = <<>>
  /\ result = NoResult
  /\ outputs = {}
  /\ runFailed = <<>>
  /\ runWarnings = <<>>
  /\ completed = FALSE
  /\ trace = <<>>

NextRun ==
  \/ ValidateInputs
  \/ ProcessEvent
  \/ SetupJava
  \/ SetupMaven
  \/ VerifyEnvironment
  \/ SetupEnvironmentEnds
  \/ RunRestore
  \/ RunMaven
  \/ RunArtifacts
  \/ RunSave
  \/ SetOutputs
  \/ CreateJobSummary

SpecRun == InitRun /\ [][NextRun]_vars

\* What the trace of execute says.
InTrace(event) == \E i \in 1..Len(trace) : trace[i] = event

StepNames == {"setupEnvironment", "restore", "maven", "artifacts", "save"}

\* execute has returned its result.
ExecuteReturned == rnPc \in {"setOutputs", "summary", "done"}

\* The cache backend threw in restoreCache / in saveCache.
RestoreBackendThrew == CallsOf("restoreCache throws") # {}

SaveBackendThrew == CallsOf("saveCache throws") # {}

\* handleArtifacts failed inside.
ArtifactsFailed ==
  \E i \in 1..Len(runWarnings) :
    StartsWith(runWarnings[i], Lit("Artifact management failed: upload rejected"))

(***************************************************************************)
(* C13: a failure of the cache backend never fails the build: if           *)
(* restoreCache or saveCache throws, restore() respectively save() catch   *)
(* it, return false without throwing, and the pipeline continues with the  *)
(* next step.                                                              *)
(***************************************************************************)
C13_BackendFailureNeverFailsBuild ==
  /\ csThrown = None
  /\ RestoreBackendThrew =>
       /\ restoreResult = "false"
       /\ InTrace("restore returned") /\ ~InTrace("restore threw")
       /\ InTrace(stepAfter("restore", TRUE))
  /\ SaveBackendThrew =>
       /\ saveResults # <<>> /\ saveResults[Len(saveResults)] = "false"
       /\ InTrace("save returned") /\ ~InTrace("save threw")
       /\ ExecuteReturned /\ result.buildStatus = Lit("success")
  /\ (ExecuteReturned /\ "error" \in DOMAIN result) =>
       ~includes(result.error, BackendError)

\* A run in which both backend calls threw and the build succeeded.
C13_Witness ==
  /\ rnPc = "done"
  /\ RestoreBackendThrew
  /\ SaveBackendThrew
  /\ Len(mavenCommands) = 1
  /\ result.buildStatus = Lit("success")

(***************************************************************************)
(* C16: within one execute() the steps run strictly in the order resolve   *)
(* toolchain, restore cache, run Maven operation, handle artifacts, save   *)
(* cache, each starting only after the previous finished; a step is        *)
(* reached only if every earlier step succeeded, so a failed toolchain     *)
(* resolution means no cache restore and no Maven operation, and a failed  *)
(* Maven operation means no cache save.  (A step has succeeded when its    *)
(* call returned without throwing; the cache steps are those of a run with *)
(* the cache enabled.)                                                     *)
(***************************************************************************)
\* The steps of execute in the order fixed by the claim.
StepOrder(enabled) ==
  <<"setupEnvironment">> \o (IF enabled THEN <<"restore">> ELSE <<>>)
    \o <<"maven", "artifacts">> \o (IF enabled THEN <<"save">> ELSE <<>>)

C16_StepsInOrder ==
  trace # <<>> =>
    LET started == SelectIn(trace, StepNames)
        order   == StepOrder(validatedInputs.cacheEnabled)
    IN  /\ Len(started) <= Len(order)
        /\ started = SubSeq(order, 1, Len(started))
        /\ \A i \in 2..Len(trace) :
             trace[i] \in StepNames =>
               \E j \in 1..(Len(order) - 1) :
                 trace[i] = order[j + 1] /\ trace[i - 1] = order[j] \o " returned"
        /\ \A i \in 1..Len(trace) :
             (\E st \in StepNames : trace[i] = st \o " threw")
               => (i = Len(trace) - 1 /\ trace[Len(trace)] = "return")
        \* what the steps do happens in that order too
        /\ (storeCalls # <<>> \/ mavenCommands # <<>>) => emPc = "done"
        /\ (mavenCommands # <<>> /\ validatedInputs.cacheEnabled)
             => CallsOf("restore returns") # {}
        /\ CallsOf("save") # {}
             => (mavenCommands # <<>> /\ InTrace("maven returned")
                   /\ InTrace("artifacts returned"))
        /\ InTrace("setupEnvironment threw")
             => (storeCalls = <<>> /\ mavenCommands = <<>>)
        /\ InTrace("maven threw")
             => (CallsOf("save") = {} /\ ~InTrace("artifacts"))

\* A run with the cache enabled that went through all five steps.
C16_Witness ==
  /\ rnPc = "done"
  /\ SelectIn(trace, StepNames) = StepOrder(TRUE)
  /\ CallsOf("restoreCache") # {}
  /\ CallsOf("saveCache") # {}

\* A run whose Maven operation failed after the cache was restored.
C16_WitnessMavenFailed ==
  /\ rnPc = "done"
  /\ InTrace("maven threw")
  /\ Len(mavenCommands) = 1
  /\ CallsOf("restoreCache") # {}

(***************************************************************************)
(* C17: after run() has executed the handler, the action output 'status'   *)
(* is set to 'success' when the build succeeded and to 'failure' when it   *)
(* failed, for the result object that execute actually returns.            *)
(***************************************************************************)
C17_StatusOutputSet ==
  rnPc \in {"summary", "done"} =>
    /\ result.buildStatus = Lit("success") => <<"status", Lit("success")>> \in outputs
    /\ result.buildStatus = Lit("failure") => <<"status", Lit("failure")>> \in outputs

(***************************************************************************)
(* C18 as stated: execute never throws: any failure in environment setup,  *)
(* cache restore, the Maven operation, artifact handling or cache save     *)
(* yields a returned result with buildStatus 'failure', the error message  *)
(* and the requested operation, and a run with no failure yields           *)
(* buildStatus 'success'.                                                  *)
(***************************************************************************)
\* The environment setup or the Maven operation failed.
SetupOrMavenFailed == InTrace("setupEnvironment threw") \/ InTrace("maven threw")

\* The message of the failure of the environment setup or the Maven
\* operation.
SetupOrMavenError ==
  IF InTrace("setupEnvironment threw") THEN emThrown
  ELSE IF executeMavenOperation(validatedInputs.operation).threw
  THEN executeMavenOperation(validatedInputs.operation).error
  ELSE MavenFailed(1)

IsFailureResult(r) ==
  /\ r.buildStatus = Lit("failure")
  /\ "error" \in DOMAIN r /\ r.error # <<>>
  /\ r.operation = validatedInputs.operation

C18_AnyFailureYieldsFailureResult ==
  ExecuteReturned =>
    /\ trace[Len(trace)] = "return"
    /\ (SetupOrMavenFailed \/ RestoreBackendThrew \/ ArtifactsFailed \/ SaveBackendThrew)
         => IsFailureResult(result)
    /\ ~(SetupOrMavenFailed \/ RestoreBackendThrew \/ ArtifactsFailed \/ SaveBackendThrew)
         => result.buildStatus = Lit("success")

(***************************************************************************)
(* C18 as amended: execute never throws: a failure of the environment      *)
(* setup or of the Maven operation yields a returned result with           *)
(* buildStatus 'failure', the error message and the requested operation;   *)
(* a failure inside cache restore, artifact handling or cache save is      *)
(* absorbed by that step and leaves the result as it would be without it;  *)
(* a run in which neither the environment setup nor the Maven operation    *)
(* failed yields buildStatus 'success'.                                    *)
(***************************************************************************)
C18_SetupOrMavenFailureYieldsFailureResult ==
  ExecuteReturned =>
    /\ trace[Len(trace)] = "return"
    /\ SetupOrMavenFailed
         => (IsFailureResult(result) /\ result.error = SetupOrMavenError)
    /\ ~SetupOrMavenFailed
         => (result.buildStatus = Lit("success") /\ "error" \notin DOMAIN result)

\* A run whose Maven build exited non-zero.
C18_Witness ==
  /\ rnPc = "done"
  /\ InTrace("maven threw")
  /\ Len(mavenCommands) = 1
  /\ result.buildStatus = Lit("failure")
  /\ result.error = MavenFailed(1)

\* A run in which the backend threw in restore and the artifacts failed, and
\* the build succeeded.
C18_WitnessAbsorbed ==
  /\ rnPc = "done"
  /\ RestoreBackendThrew
  /\ ArtifactsFailed
  /\ result.buildStatus = Lit("success")

(***************************************************************************)
(* C19: every operation input that passes validateOperation (each of       *)
(* validate, compile, test, package, verify, install, deploy, clean, in    *)
(* any letter case) is executed by the handler as the corresponding Maven  *)
(* phase: executeMavenOperation on the validated input never fails with    *)
(* 'Unsupported Maven operation'.                                          *)
(***************************************************************************)
C19_ValidatedOperationIsExecuted ==
  (InTrace("maven returned") \/ InTrace("maven threw")) =>
    /\ validateOperation(validatedInputs.operation) = <<>>
    /\ Len(mavenCommands) = 1
    /\ mavenCommands[1][2] = toLowerCase(validatedInputs.operation)
    /\ "error" \in DOMAIN result
         => ~StartsWith(result.error, Lit("Unsupported Maven operation: "))

(***************************************************************************)
(* C20: input validation happens before anything else and any validation   *)
(* failure stops execution completely: if validateInputs records at least  *)
(* one error, run() marks the action failed and no version-query,          *)
(* installation, cache restore/save or Maven command is ever performed.    *)
(***************************************************************************)
\* Nothing has been queried, installed, restored, saved or run.
NothingPerformed ==
  /\ calls = <<>>
  /\ storeCalls = <<>>
  /\ mavenCommands = <<>>
  /\ trace = <<>>
  /\ toolCache \in { {}, { <<Lit("Java_") \o Lit("corretto"), ToStr(17)>>,
                           <<Lit("Maven"), Dotted(<<3, 9, 5>>)>> } }
  /\ PATH = <<>>
  /\ backend \in { {}, {ForeignKey},
                   KeysOfTree(dirs, poms, platform, ToStr(17), Dotted(<<3, 9, 5>>)) }

C20_ValidationFailureStopsEverything ==
  /\ rnPc = "validate" => NothingPerformed
  /\ (validationErrorsOf(inputs) # <<>> /\ rnPc # "validate") =>
       /\ rnPc = "failed"
       /\ Len(runFailed) >= 1
       /\ \A i \in 1..Len(runFailed) :
            includes(runFailed[i], Lit("Input validation failed:"))
       /\ ~completed
       /\ NothingPerformed

\* A run stopped by two validation errors.
C20_Witness ==
  /\ rnPc = "failed"
  /\ Len(validationErrorsOf(inputs)) = 2
  /\ inputs.operation = <<"b", "u", "i", "l", "d">>
  /\ NothingPerformed

\* The segments of a path, split at '/' and '\'.
PathSegments(p) ==
  LET slashed == [i \in 1..Len(p) |-> IF p[i] = "\\" THEN "/" ELSE p[i]]
  IN  Split(slashed, "/")

\* p has a '..' segment.
HasTraversalSegment(p) ==
  \E i \in 1..Len(PathSegments(p)) : PathSegments(p)[i] = <<".", ".">>

\* p starts at a root.
IsAbsolutePath(p) == StartsWith(p, <<"/">>) \/ StartsWith(p, <<"\\">>)

(***************************************************************************)
(* C21: validateWorkingDirectory records an error for every                *)
(* working-directory value that contains a '..' traversal segment or is    *)
(* an absolute path, so only relative, non-traversing paths pass           *)
(* validation and reach the scanner and the Maven executor.                *)
(***************************************************************************)
C21_TraversalAndAbsolutePathsRejected ==
  /\ (HasTraversalSegment(getInput(inputs.workingDirectory))
        \/ IsAbsolutePath(getInput(inputs.workingDirectory)))
       => (rnPc # "validate" => validatedInputs = NoInputs)
  /\ validatedInputs # NoInputs =>
       /\ ~HasTraversalSegment(validatedInputs.workingDirectory)
       /\ ~IsAbsolutePath(validatedInputs.workingDirectory)

\* The detections and installations among the calls cs, in order.
JavaResolutionCalls(cs) == SelectIn(cs, {"getCurrentJavaVersion", "installJava"})

MavenResolutionCalls(cs) == SelectIn(cs, {"getCurrentMavenVersion", "installMaven"})

(***************************************************************************)
(* C22: when a tool is absent and resolution succeeds, its installer is    *)
(* invoked exactly once, its detection is invoked exactly once before the  *)
(* installation and exactly once more during verifyEnvironment, and never  *)
(* in any other order.                                                     *)
(***************************************************************************)
C22_AbsentToolDetectedInstalledVerified ==
  /\ javaSetup.action = "installed" =>
       JavaResolutionCalls(JavaCalls) = <<"getCurrentJavaVersion", "installJava">>
  /\ mavenSetup.action = "installed" =>
       MavenResolutionCalls(MavenCalls) = <<"getCurrentMavenVersion", "installMaven">>
  /\ (emPc = "done" /\ javaSetup.action = "installed") =>
       /\ JavaResolutionCalls(calls)
            = <<"getCurrentJavaVersion", "installJava", "getCurrentJavaVersion">>
       /\ JavaResolutionCalls(CallsSince("verifyEnvironment"))
            = <<"getCurrentJavaVersion">>
  /\ (emPc = "done" /\ mavenSetup.action = "installed") =>
       /\ MavenResolutionCalls(calls)
            = <<"getCurrentMavenVersion", "installMaven", "getCurrentMavenVersion">>
       /\ MavenResolutionCalls(CallsSince("verifyEnvironment"))
            = <<"getCurrentMavenVersion">>

\* Both tools were absent, were installed, and the environment was verified.
C22_Witness ==
  /\ emPc = "done"
  /\ javaSetup.action = "installed"
  /\ mavenSetup.action = "installed"
  /\ Len(CallsSince("verifyEnvironment")) >= 4

\* The log entries a step added.
AddedStoreCalls == SubSeq(storeCalls', Len(storeCalls) + 1, Len(storeCalls'))

\* The step is a call of save() with the cache enabled and ~/.m2/repository
\* absent.
SaveWithoutRepository ==
  /\ cacheEnabled
  /\ ~m2Exists
  /\ Len(storeCalls') > Len(storeCalls)
  /\ AddedStoreCalls[1].op = "save"

(***************************************************************************)
(* C23: save() with the dependency-store directory absent warns, makes no  *)
(* backend saveCache call, leaves the recorded run-state key unchanged and *)
(* returns false, without raising an error.                                *)
(***************************************************************************)
C23_SaveWithoutRepositorySkips ==
  [][ SaveWithoutRepository =>
        /\ \E i \in 1..Len(AddedStoreCalls) : AddedStoreCalls[i].op = "warning"
        /\ \A i \in 1..Len(AddedStoreCalls) :
             AddedStoreCalls[i].op \notin {"saveCache", "saveState", "save throws"}
        /\ AddedStoreCalls[Len(AddedStoreCalls)] = StoreCall("save returns", Lit("false"))
        /\ saveResults' = Append(saveResults, "false")
        /\ csThrown' = None
        /\ stateFile' = stateFile
        /\ stateEnv' = stateEnv
        /\ backend' = backend ]_vars

\* save() has returned with the directory absent and a key recorded in the
\* run-state.
C23_Witness ==
  /\ cacheEnabled
  /\ ~m2Exists
  /\ stateEnv # None
  /\ saveResults # <<>>
  /\ CallsOf("directoryExists") # {}
  /\ CallsOf("saveCache") = {}

(***************************************************************************)
(* C24: extractMajorJavaVersion maps every legacy version string of the    *)
(* form "1.X.0_build" to major X and every modern string "X.Y.Z..." to     *)
(* major X, for all X.                                                     *)
(***************************************************************************)
C24_MajorOfLegacyAndModernStrings ==
  (fnKind = "major" /\ fnDone) => fnMajor = ToStr(fnDetected.major)

\* The modern half of C24 alone: every modern string "X.Y.Z..." is mapped to
\* major X, and so is the legacy string of Java 8.
C24_MajorOfModernStrings ==
  (fnKind = "major" /\ fnDone
     /\ (fnDetected \in ModernJavaVersions \/ fnDetected.major = 8))
    => fnMajor = ToStr(fnDetected.major)

\* The calls a step added to the log.
AddedCalls == SubSeq(calls', Len(calls) + 1, Len(calls'))

\* What a version query that finds no version does: a non-zero exit code, a
\* throwing exec, or output without a parsable version.
DetectionFailures == {"nonzero", "throws", "nomatch"}

(***************************************************************************)
(* C25: detection never surfaces an error: getCurrentJavaVersion and       *)
(* getCurrentMavenVersion return 'not available' whenever the              *)
(* version-query exits non-zero, throws, or prints output with no          *)
(* parsable version, and setupJava / setupMaven then proceed to the        *)
(* installation instead of failing: an error they raise is the             *)
(* installer's.                                                            *)
(***************************************************************************)
C25_DetectionFailureLeadsToInstall ==
  [][ /\ (emPc = "setupJava" /\ hostJava.status \in DetectionFailures) =>
           /\ getCurrentJavaVersion(hostJava, envVars) = NotAvailable
           /\ Made(AddedCalls, {"installJava"})
           /\ emThrown' # None
                => StartsWith(emThrown', Lit("Java installation failed: "))
           /\ emThrown' = None => javaSetup'.action = "installed"
      /\ (emPc = "setupMaven" /\ hostMaven.status \in DetectionFailures) =>
           /\ getCurrentMavenVersion(hostMaven) = NotAvailable
           /\ Made(AddedCalls, {"installMaven"})
           /\ emThrown' # None
                => StartsWith(emThrown', Lit("Maven installation failed: "))
           /\ emThrown' = None => mavenSetup'.action = "installed" ]_vars

\* The Java version query threw, the Maven one printed nothing parsable, and
\* both tools were installed.
C25_Witness ==
  /\ emPc \in {"verify", "done"}
  /\ javaSetup.action = "installed"
  /\ mavenSetup.action = "installed"
  /\ Contains(calls, <<"getCurrentJavaVersion", "exec java -version", "installJava">>)
  /\ Contains(calls, <<"getCurrentMavenVersion", "exec mvn -version", "installMaven">>)

DownloadCalls == {"tc.downloadTool", "tc.extractTar", "tc.cacheDir"}

(***************************************************************************)
(* C26: a successful install always leaves the tool registered: on a       *)
(* tool-cache hit no download or extract is performed, and on both hit and *)
(* miss the tool's bin directory is prepended to PATH and its home         *)
(* variable(s) (JAVA_HOME for Java; M2_HOME and MAVEN_HOME for Maven) are  *)
(* exported with the same home path that the 'installed' outcome returns;  *)
(* if download or extract fails, PATH and the home variables are left      *)
(* unchanged.                                                              *)
(***************************************************************************)
C26_InstallRegistersTool ==
  [][ /\ (emPc = "setupJava" /\ Made(AddedCalls, {"installJava"})) =>
           /\ <<Lit("Java_") \o Lit(requiredJavaDistribution), requiredJavaVersion>>
                \in toolCache => ~Made(AddedCalls, DownloadCalls)
           /\ javaSetup'.action = "installed" =>
                /\ javaSetup'.path # None
                /\ PATH' = <<javaSetup'.path \o Lit("/bin")>> \o PATH
                /\ envVars' = [envVars EXCEPT !.JAVA_HOME = javaSetup'.path]
                /\ Contains(AddedCalls,
                            <<"core.addPath", "core.exportVariable JAVA_HOME">>)
           /\ emThrown' # None =>
                (PATH' = PATH /\ envVars' = envVars /\ toolCache' = toolCache
                   /\ ~Made(AddedCalls, {"core.addPath", "core.exportVariable JAVA_HOME"}))
      /\ (emPc = "setupMaven" /\ Made(AddedCalls, {"installMaven"})) =>
           /\ <<Lit("Maven"), requiredMavenVersion>> \in toolCache
                => ~Made(AddedCalls, DownloadCalls)
           /\ mavenSetup'.action = "installed" =>
                /\ mavenSetup'.path # None
                /\ PATH' = <<mavenSetup'.path \o Lit("/bin")>> \o PATH
                /\ envVars' = [envVars EXCEPT !.M2_HOME = mavenSetup'.path,
                                              !.MAVEN_HOME = mavenSetup'.path]
                /\ Contains(AddedCalls,
                            <<"core.addPath", "core.exportVariable M2_HOME",
                              "core.exportVariable MAVEN_HOME">>)
           /\ emThrown' # None =>
                (PATH' = PATH /\ envVars' = envVars /\ toolCache' = toolCache
                   /\ ~Made(AddedCalls, {"core.addPath", "core.exportVariable M2_HOME",
                                         "core.exportVariable MAVEN_HOME"})) ]_vars

\* Java was installed from the tool cache, Maven by download, and both are
\* registered.
C26_Witness ==
  /\ javaSetup.action = "installed"
  /\ mavenSetup.action = "installed"
  /\ ~Made(JavaCalls, DownloadCalls)
  /\ Made(MavenCalls, DownloadCalls)
  /\ PATH = <<mavenSetup.path \o Lit("/bin"), javaSetup.path \o Lit("/bin")>>
  /\ envVars.JAVA_HOME = javaSetup.path
  /\ envVars.M2_HOME = mavenSetup.path
  /\ envVars.MAVEN_HOME = mavenSetup.path

\* The download of Java failed and nothing was registered.
C26_WitnessDownloadFailed ==
  /\ emPc = "failed"
  /\ Made(JavaCalls, {"tc.downloadTool"})
  /\ ~Made(JavaCalls, {"tc.extractTar"})
  /\ PATH = <<>>
  /\ envVars = NoEnv

\* The run is marked as failed: core.setFailed was called.
MarkedFailed == runFailed # <<>> \/ setFailed # None

(***************************************************************************)
(* C27: whenever the Maven operation fails (the build tool exits non-zero  *)
(* or the operation throws), the action run ends marked as failed: run()   *)
(* calls setFailed and does not report successful completion.              *)
(***************************************************************************)
C27_MavenFailureFailsTheRun ==
  (InTrace("maven threw") /\ rnPc \in {"done", "failed"}) =>
    (MarkedFailed /\ ~completed)

(***************************************************************************)
(* C28: the most specific fallback key that generateRestoreKeys produces   *)
(* for a context (os, Java version, Maven version) is a string prefix of   *)
(* every primary key that generateCacheKey produces for that same context, *)
(* so that a prefix-matching backend can find an entry saved under the     *)
(* same context through it and is not forced down to the bare             *)
(* 'maven-deps' prefix.                                                    *)
(***************************************************************************)
C28_SpecificRestoreKeyIsPrefixOfPrimaryKey ==
  (restoreKeys # None /\ cacheKey # None) =>
    /\ StartsWith(cacheKey, restoreKeys[1])
    /\ \A k \in KeysOfTree(dirs, poms, platform, requiredJavaVersion,
                           requiredMavenVersion) :
         StartsWith(k, restoreKeys[1])

(***************************************************************************)
(* C29: within one invocation, if restore() hit the backend on the exact   *)
(* primary key and no manifest or requirement changed before save(), then  *)
(* save() makes no backend saveCache call: a cache entry is saved only     *)
(* when the key is new.                                                    *)
(***************************************************************************)
C29_NoSaveAfterExactHit ==
  \A i \in CallsOf("restoreCache"), j \in CallsOf("save") :
    (/\ i < j
     /\ cacheHit = storeCalls[i].arg
     /\ cacheKey = cacheHit
     /\ prevKey = cacheKey)
      => \A k \in CallsOf("saveCache") : k < j

(***************************************************************************)
(* C30: every Java version and distribution that InputValidator accepts    *)
(* can be installed when Java is absent: it is in EnvironmentManager's     *)
(* supported lists and getJavaDownloadUrl returns a download locator for   *)
(* it, so installJava fails only if the download, extract or registration  *)
(* collaborator fails.                                                     *)
(***************************************************************************)
C30_AcceptedJavaCanBeInstalled ==
  validatedInputs # NoInputs =>
    /\ Includes(supportedJavaVersions, validatedInputs.javaVersion)
    /\ Includes(supportedJavaDistributions, validatedInputs.javaDistribution)
    /\ ~getJavaDownloadUrl(validatedInputs.javaVersion,
                           validatedInputs.javaDistribution).threw
    /\ (emPc = "failed" /\ StartsWith(emThrown, Lit("Java installation failed: ")))
         => Made(JavaCalls, DownloadCalls)

====
